---- MODULE Spec2Model ----
(***************************************************************************)
(* Habit gamification service: the Habit aggregate (Progress, Streak,      *)
(* entry log), the two in-memory repositories, the JWT access gate and     *)
(* the habit endpoints of app/routes.py.                                   *)
(***************************************************************************)
EXTENDS Integers, Sequences, FiniteSets, TLC

\* ------------------------------------------------------------------ bounds
MaxEntries == 2      \* complete()/miss() calls served in a behaviour of Spec
MaxCalls == 6        \* complete()/miss() calls on the habit of SpecDomain
MaxTotal == 50       \* total_entries reached by the Progress of SpecProgress
MaxClock == 1        \* minutes the wall clock advances in SpecTime and SpecDomain
NThreads == 2        \* worker threads serving requests at once in SpecConc
MaxFlow == 11        \* complete()/miss() requests of the owner in SpecFlow
MaxStore == 4        \* save()/delete() calls on the repository of SpecStore

\* ------------------------------------------------------- program constants
ACCESS_TOKEN_EXPIRE_MINUTES == 30
MantissaBits == 53   \* CPython float is an IEEE-754 binary64
LimbBits == 16       \* limb width of the big-natural arithmetic below

HTTP_200_OK == 200
HTTP_201_CREATED == 201
HTTP_401_UNAUTHORIZED == 401
HTTP_403_FORBIDDEN == 403
HTTP_404_NOT_FOUND == 404

\* ------------------------------------------------------------- value sets
\* uuid4() draws an id never drawn before. Ids are opaque, so the ids are
\* named in the order in which they are drawn: uuid4(used) is the next one.
UserIds == {"u1", "u2"}
HabitIds == {"h1", "h2"}
UuidOrder == <<"u1", "u2", "h1", "h2">>
HasFresh(pool, used) == pool \ used # {}
uuid4(pool, used) ==
    UuidOrder[CHOOSE i \in 1..Len(UuidOrder) :
                 /\ UuidOrder[i] \in pool \ used
                 /\ \A j \in 1..(i - 1) : UuidOrder[j] \notin pool \ used]
Usernames == {"testuser"}             \* the fixtures' user; startup_event adds "test_user"
Passwords == {"testpassword123"}
Salts == {"salt1"}                   \* bcrypt.gensalt() values
Titles == {"Test Habit"}
Descriptions == {""}
None == [none |-> TRUE]              \* Python None where an object is expected

\* ------------------------------------------------------------------ state
VARIABLES
    now,               \* the wall clock read by datetime.now() / utcnow()
    user_repository,   \* UserRepository: [_users, _username_index]
    habit_repository,  \* HabitRepository._habits: habit_id -> object
    heap,              \* the Habit objects, addressed by their habit_id
    calls,             \* history: the complete()/miss() calls made on each Habit;
                       \* in SpecStore, the save/delete calls made for each id
    seen,              \* history (kept in SpecSeen only): the progress view last
                       \* returned for each Habit since its last complete()/miss(),
                       \* and whether it was returned more than once
    last,              \* the request served by the last step and its response
    progress,          \* the stand-alone Progress object of SpecProgress
    threads,           \* the worker threads of SpecConc: the request each one
                       \* serves, its position in the handler and its locals
    drawn,             \* the ids uuid4() has returned so far
    session            \* history (kept in SpecGate only): the credentials sent
                       \* with the request served by the last step

vars == <<now, user_repository, habit_repository, heap, calls, seen, last,
          progress, threads, drawn, session>>

\* --------------------------------------------- IEEE-754 binary64 arithmetic
\* A positive float is [m, e]: m is its 53-bit significand as a sequence of
\* bits, least significant first, top bit 1, and its value is m * 2^e.
\* Big naturals are bit sequences too, least significant bit first.

RECURSIVE BitsToNat(_)
BitsToNat(b) == IF b = <<>> THEN 0 ELSE b[1] + 2 * BitsToNat(Tail(b))

Zeros(k) == [i \in 1..k |-> 0]

RECURSIVE Pow2(_)
Pow2(k) == IF k = 0 THEN 1 ELSE 2 * Pow2(k - 1)

\* A big natural cut into limbs of LimbBits bits, least significant first.
ToLimbs(b) ==
    [l \in 1..((Len(b) + LimbBits - 1) \div LimbBits) |->
        BitsToNat(SubSeq(b, LimbBits * (l - 1) + 1,
                         IF LimbBits * l < Len(b) THEN LimbBits * l ELSE Len(b)))]

\* limbs * k + c for small naturals k and c, limb by limb with carry.
RECURSIVE MulAddLimbs(_, _, _)
MulAddLimbs(limbs, k, c) ==
    IF limbs = <<>>
    THEN IF c = 0 THEN <<>> ELSE <<c>>
    ELSE LET x == limbs[1] * k + c
         IN  <<x % Pow2(LimbBits)>> \o MulAddLimbs(Tail(limbs), k, x \div Pow2(LimbBits))

\* The bits of a limb sequence, without leading zeros.
ToBits(limbs) ==
    LET n == LimbBits * Len(limbs)
        bit(i) == (limbs[(i - 1) \div LimbBits + 1] \div Pow2((i - 1) % LimbBits)) % 2
        set == {i \in 1..n : bit(i) = 1}
        top == IF set = {} THEN 0 ELSE CHOOSE i \in set : \A j \in set : j <= i
    IN  [i \in 1..top |-> bit(i)]

\* n * k + c for a big natural n and small naturals k, c (k, c < 2^15).
MulAddSmall(n, k, c) == ToBits(MulAddLimbs(ToLimbs(n), k, c))

\* Round the exact value n * 2^e (n a bit sequence with top bit 1, sticky
\* telling that the exact value has further non-zero bits below n) to the
\* nearest float, ties to even.
RoundToFloat(n, e, sticky) ==
    LET len == Len(n)
        drop == len - MantissaBits
    IN  IF drop <= 0
        THEN [m |-> Zeros(0 - drop) \o n, e |-> e + drop]
        ELSE LET kept == SubSeq(n, drop + 1, len)
                 guard == n[drop]
                 below == sticky \/ \E i \in 1..(drop - 1) : n[i] = 1
                 up == guard = 1 /\ (below \/ kept[1] = 1)
                 inc == IF up THEN MulAddSmall(kept, 1, 1) ELSE kept
             IN  IF Len(inc) > MantissaBits
                 THEN [m |-> Tail(inc), e |-> e + drop + 1]
                 ELSE [m |-> inc, e |-> e + drop]

\* 2^i mod d, by repeated squaring (d < 2^15).
RECURSIVE PowMod(_, _)
PowMod(i, d) ==
    IF i = 0 THEN 1 % d
    ELSE LET h == PowMod(i \div 2, d)
             sq == (h * h) % d
         IN  IF i % 2 = 1 THEN (2 * sq) % d ELSE sq

\* The first k bits of the binary expansion of r / d below the point
\* (0 <= r < d < 2^15), least significant first, with the remainder left:
\* the i-th bit below the point is set iff twice the remainder left after
\* i - 1 bits, (r * 2^(i-1)) mod d, reaches d.
DivBits(r, d, k) ==
    LET rem(i) == (r * PowMod(i, d)) % d
    IN  [bits |-> [i \in 1..k |-> IF 2 * rem(k - i) >= d THEN 1 ELSE 0],
         rem |-> rem(k)]

\* The least k with n * 2^k >= d (n, d > 0).
RECURSIVE ScaleUp(_, _)
ScaleUp(n, d) == IF n >= d THEN 0 ELSE 1 + ScaleUp(2 * n, d)

\* The greatest j with d * 2^j <= n (n >= d > 0).
RECURSIVE ScaleDown(_, _)
ScaleDown(n, d) == IF n < 2 * d THEN 0 ELSE 1 + ScaleDown(n, 2 * d)

\* float(a) / float(b) for ints a, b > 0: the correctly rounded quotient.
FloatDiv(a, b) ==
    LET k == ScaleUp(a, b)
        j == IF k = 0 THEN ScaleDown(a, b) ELSE 0
        a2 == a * Pow2(k)
        b2 == b * Pow2(j)                        \* b2 <= a2 < 2 * b2
        q == DivBits(a2 - b2, b2, MantissaBits)  \* 53 fraction bits
        n == q.bits \o <<1>>                     \* 54 bits, top bit 1
    IN  RoundToFloat(n, j - k - MantissaBits, q.rem # 0)

\* x * float(k) for a float x and a small int k > 0.
FloatMulSmall(x, k) == RoundToFloat(MulAddSmall(x.m, k, 0), x.e, FALSE)

\* int(x): truncation toward zero of a positive float below 2^31.
FloatToInt(x) ==
    IF x.e >= 0 THEN BitsToNat(x.m) * Pow2(x.e)
    ELSE IF 0 - x.e >= Len(x.m) THEN 0
    ELSE BitsToNat(SubSeq(x.m, 1 - x.e, Len(x.m)))

\* ---------------------------------------------------------------- Progress
NewProgress == [completed_entries |-> 0, total_entries |-> 0]

\* Fault seeded in Progress.percentage: a Progress without entries is full.
percentageFloat_empty_full(p) ==
    IF p.total_entries = 0 THEN 100
    ELSE IF p.completed_entries = 0 THEN 0
    ELSE FloatToInt(FloatMulSmall(FloatDiv(p.completed_entries, p.total_entries), 100))

\* int((completed_entries / total_entries) * 100) in float arithmetic.
percentageFloat(p) ==
    IF p.total_entries = 0 THEN 0
    ELSE IF p.completed_entries = 0 THEN 0
    ELSE FloatToInt(FloatMulSmall(FloatDiv(p.completed_entries, p.total_entries), 100))

\* percentageFloat tabulated once for the counter values the habits reach.
TableMax == IF MaxFlow > MaxEntries THEN MaxFlow ELSE MaxEntries

percentageTable ==
    [t \in 0..TableMax |-> [c \in 0..TableMax |->
        percentageFloat([completed_entries |-> c, total_entries |-> t])]]

percentage(p) ==
    IF p.total_entries \in 0..TableMax /\ p.completed_entries \in 0..TableMax
    THEN percentageTable[p.total_entries][p.completed_entries]
    ELSE percentageFloat(p)

\* Faults seeded in Progress: a completed entry that misses the total, a
\* missed entry that is not counted.
add_completed_entry_half(p) == [p EXCEPT !.completed_entries = @ + 1]

add_missed_entry_lost(p) == p

add_completed_entry(p) ==
    [p EXCEPT !.completed_entries = @ + 1, !.total_entries = @ + 1]

add_missed_entry(p) == [p EXCEPT !.total_entries = @ + 1]

\* ------------------------------------------------------------------ Streak
NewStreak == [count |-> 0]

\* Fault seeded in Streak.increment: the count is doubled once it is positive.
increment_doubling(s) == [s EXCEPT !.count = IF @ = 0 THEN 1 ELSE 2 * @]

increment(s) == [s EXCEPT !.count = @ + 1]

\* Fault seeded in Streak: a reset that keeps the count.
reset_kept(s) == s

reset(s) == [s EXCEPT !.count = 0]

\* -------------------------------------------------------------------- Habit
\* date.today(): the clock counts minutes.
MinutesPerDay == 1440
today(clock) == clock \div MinutesPerDay

\* Fault seeded in HabitEntry: every entry is flagged as completed.
HabitEntry_done(completed, clock) == [date |-> today(clock), completed |-> TRUE]

\* HabitEntry(completed=...): the date defaults to date.today(); the entry_id
\* is a uuid4 that nothing reads and is left out.
HabitEntry(completed, clock) == [date |-> today(clock), completed |-> completed]

\* Habit.create with habit_id the uuid4() drawn and clock the value of now().
HabitCreate(habit_id, user_id, title, description, clock) ==
    [habit_id |-> habit_id, user_id |-> user_id, title |-> title,
     description |-> description, progress |-> NewProgress,
     streak |-> NewStreak, entries |-> <<>>,
     created_at |-> clock, updated_at |-> clock]

\* Fault seeded in Habit.complete: the entry is put at the head of the log.
complete_prepending(habit, clock) ==
    [habit EXCEPT !.entries = <<HabitEntry(TRUE, clock)>> \o @,
                  !.progress = add_completed_entry(@),
                  !.streak = increment(@),
                  !.updated_at = clock]

\* Habit.complete
complete(habit, clock) ==
    [habit EXCEPT !.entries = Append(@, HabitEntry(TRUE, clock)),
                  !.progress = add_completed_entry(@),
                  !.streak = increment(@),
                  !.updated_at = clock]

\* Fault seeded in Habit.miss: the missed entry is counted as a completed one.
miss_counted(habit, clock) ==
    [habit EXCEPT !.entries = Append(@, HabitEntry(FALSE, clock)),
                  !.progress = add_completed_entry(@),
                  !.streak = reset(@),
                  !.updated_at = clock]

\* Fault seeded in Habit.miss: updated_at is left as it was.
miss_unstamped(habit, clock) ==
    [habit EXCEPT !.entries = Append(@, HabitEntry(FALSE, clock)),
                  !.progress = add_missed_entry(@),
                  !.streak = reset(@)]

\* Habit.miss
miss(habit, clock) ==
    [habit EXCEPT !.entries = Append(@, HabitEntry(FALSE, clock)),
                  !.progress = add_missed_entry(@),
                  !.streak = reset(@),
                  !.updated_at = clock]

\* --------------------------------------------------------------------- User
\* bcrypt.hashpw / bcrypt.checkpw: the digest carries its salt and is
\* recomputed from the candidate password to compare.
hashpw(password, salt) == [salt |-> salt, digest |-> <<salt, password>>]

\* Fault seeded in the password check: an empty password is let through.
checkpw_empty(password, hashed) ==
    password = "" \/ hashpw(password, hashed.salt) = hashed

checkpw(password, hashed) == hashpw(password, hashed.salt) = hashed

\* User.create with user_id the uuid4() and salt the gensalt() drawn.
UserCreate(user_id, username, password, salt, clock) ==
    [user_id |-> user_id, username |-> username,
     hashed_password |-> hashpw(password, salt), created_at |-> clock]

verify_password(user, password) == checkpw(password, user.hashed_password)

\* ------------------------------------------------------------- repositories
\* A Python dict is a function whose domain is the set of its keys.
DictSet(d, k, v) == [x \in DOMAIN d \cup {k} |-> IF x = k THEN v ELSE d[x]]

DictGet(d, k) == IF k \in DOMAIN d THEN d[k] ELSE None

EmptyDict == <<>>

\* HabitRepository: _habits maps a habit_id to a Habit object; the objects
\* live in heap under the habit_id they were created with.
HabitRepository_save(repo, habit_id) == DictSet(repo, habit_id, habit_id)

HabitRepository_get_by_id(repo, objects, habit_id) ==
    IF habit_id \in DOMAIN repo THEN objects[repo[habit_id]] ELSE None

HabitRepository_exists(repo, habit_id) == habit_id \in DOMAIN repo

\* Fault seeded in HabitRepository.delete: the record is reported as deleted
\* and left in place.
HabitRepository_delete_kept(repo, habit_id) ==
    [repo |-> repo, result |-> habit_id \in DOMAIN repo]

\* Fault seeded in HabitRepository.delete: the whole dict is dropped.
HabitRepository_delete_all(repo, habit_id) ==
    IF habit_id \in DOMAIN repo
    THEN [repo |-> EmptyDict, result |-> TRUE]
    ELSE [repo |-> repo, result |-> FALSE]

\* HabitRepository.delete: the dict after the call and the value returned.
HabitRepository_delete(repo, habit_id) ==
    IF habit_id \in DOMAIN repo
    THEN [repo |-> [h \in DOMAIN repo \ {habit_id} |-> repo[h]], result |-> TRUE]
    ELSE [repo |-> repo, result |-> FALSE]

\* HabitRepository.get_all: list(self._habits.values()), one element per key.
\* The list holds the objects themselves (their addresses in objects); the
\* order of the keys in the dict is not modelled.
RECURSIVE HabitRepository_get_all(_)
HabitRepository_get_all(repo) ==
    IF DOMAIN repo = {} THEN <<>>
    ELSE LET k == CHOOSE h \in DOMAIN repo : TRUE
         IN  <<repo[k]>> \o HabitRepository_get_all([h \in DOMAIN repo \ {k} |-> repo[h]])

\* Fault seeded in UserRepository.get_by_username: the name is matched without
\* regard to letter case.
LowerCase(username) ==
    CASE username = "TestUser" -> "testuser"
      [] username = "TESTUSER" -> "testuser"
      [] OTHER -> username

UserRepository_get_by_username_folded(repo, username) ==
    LET names == {n \in DOMAIN repo.username_index : LowerCase(n) = LowerCase(username)}
    IN  IF names = {} THEN None
        ELSE DictGet(repo.users, repo.username_index[CHOOSE n \in names : TRUE])

\* Fault seeded in UserRepository.save: a login name already in the index
\* keeps the id it points at.
UserRepository_save_first(repo, user) ==
    [users |-> DictSet(repo.users, user.user_id, user),
     username_index |-> IF user.username \in DOMAIN repo.username_index
                        THEN repo.username_index
                        ELSE DictSet(repo.username_index, user.username, user.user_id)]

\* UserRepository
UserRepository_save(repo, user) ==
    [users |-> DictSet(repo.users, user.user_id, user),
     username_index |-> DictSet(repo.username_index, user.username, user.user_id)]

UserRepository_get_by_id(repo, user_id) == DictGet(repo.users, user_id)

UserRepository_get_by_username(repo, username) ==
    IF username \in DOMAIN repo.username_index
    THEN DictGet(repo.users, repo.username_index[username])
    ELSE None

UserRepository_exists(repo, user_id) == user_id \in DOMAIN repo.users

\* -------------------------------------------------------------- app/auth.py
SECRET_KEY == "your-secret-key-change-this-in-production"
timedelta(minutes) == [minutes |-> minutes]

\* str(uuid) and UUID(text): a string is a uuid's text or some other text.
uuid_str(u) == [hex |-> u]
OtherText(t) == [text |-> t]
ValueError == "ValueError"
ParseUUID(s) == IF DOMAIN s = {"hex"} THEN s.hex ELSE ValueError

\* jose.jwt: a token is its payload and a signature over payload and key.
Sign(payload, key) == [signed |-> payload, key |-> key]
jwt_encode(payload, key) == [payload |-> payload, signature |-> Sign(payload, key)]
MalformedToken == [garbage |-> "invalid.token.here"]
NoCredentials == [absent |-> TRUE]       \* no Authorization header
JWTError == [error |-> "JWTError"]

\* Fault seeded in jwt.decode: the expiry claim is not checked.
jwt_decode_unexpiring(token, key, clock) ==
    IF DOMAIN token # {"payload", "signature"} THEN JWTError
    ELSE IF token.signature # Sign(token.payload, key) THEN JWTError
    ELSE token.payload

jwt_decode(token, key, clock) ==
    IF DOMAIN token # {"payload", "signature"} THEN JWTError
    ELSE IF token.signature # Sign(token.payload, key) THEN JWTError
    ELSE IF "exp" \in DOMAIN token.payload /\ token.payload.exp < clock THEN JWTError
    ELSE token.payload

\* Fault seeded in create_access_token: the expiry is written into the
\* caller's dict instead of a copy of it.
create_access_token_inplace(data, expires_delta, clock) ==
    LET expire == IF expires_delta # None /\ expires_delta # timedelta(0)
                  THEN clock + expires_delta.minutes
                  ELSE clock + ACCESS_TOKEN_EXPIRE_MINUTES
        to_encode == [k \in DOMAIN data \cup {"exp"} |->
                         IF k = "exp" THEN expire ELSE data[k]]
    IN  [token |-> jwt_encode(to_encode, SECRET_KEY), data |-> to_encode]

\* A call of create_access_token: the token returned and the caller's dict
\* after the call. to_encode is a copy of data, so that the update with the
\* expiry does not reach data; a timedelta of zero is falsy.
create_access_token_call(data, expires_delta, clock) ==
    LET expire == IF expires_delta # None /\ expires_delta # timedelta(0)
                  THEN clock + expires_delta.minutes
                  ELSE clock + ACCESS_TOKEN_EXPIRE_MINUTES
        to_encode == [k \in DOMAIN data \cup {"exp"} |->
                         IF k = "exp" THEN expire ELSE data[k]]
    IN  [token |-> jwt_encode(to_encode, SECRET_KEY), data |-> data]

create_access_token(data, expires_delta, clock) ==
    create_access_token_call(data, expires_delta, clock).token

HTTPException(status_code, detail) ==
    [status |-> status_code, detail |-> detail, body |-> None]

IsError(r) == "detail" \in DOMAIN r

\* Fault seeded in decode_access_token: the payload is read without verifying
\* the token.
decode_access_token_unverified(token, clock) ==
    IF DOMAIN token # {"payload", "signature"}
    THEN HTTPException(HTTP_401_UNAUTHORIZED, "Could not validate credentials")
    ELSE token.payload

decode_access_token(token, clock) ==
    LET payload == jwt_decode(token, SECRET_KEY, clock)
    IN  IF payload = JWTError
        THEN HTTPException(HTTP_401_UNAUTHORIZED, "Could not validate credentials")
        ELSE payload

\* Fault seeded in the bearer scheme: absent credentials are answered like
\* credentials that do not verify.
get_current_user_uniform(credentials, repo, clock) ==
    LET payload == IF credentials = NoCredentials
                   THEN decode_access_token(MalformedToken, clock)
                   ELSE decode_access_token(credentials, clock)
        user_id_str == IF "sub" \in DOMAIN payload THEN payload.sub ELSE None
        user_id == ParseUUID(user_id_str)
        user == UserRepository_get_by_id(repo, user_id)
    IN  IF IsError(payload) THEN payload
        ELSE IF user_id_str = None
        THEN HTTPException(HTTP_401_UNAUTHORIZED, "Could not validate credentials")
        ELSE IF user_id = ValueError
        THEN HTTPException(HTTP_401_UNAUTHORIZED, "Invalid token format")
        ELSE IF user = None
        THEN HTTPException(HTTP_401_UNAUTHORIZED, "User not found")
        ELSE user

\* Fault seeded in get_current_user: the identity claim is trusted without
\* looking the user up.
get_current_user_trusting(credentials, repo, clock) ==
    IF credentials = NoCredentials
    THEN HTTPException(HTTP_403_FORBIDDEN, "Not authenticated")
    ELSE LET payload == decode_access_token(credentials, clock)
             user_id_str == IF "sub" \in DOMAIN payload THEN payload.sub ELSE None
             user_id == ParseUUID(user_id_str)
         IN  IF IsError(payload) THEN payload
             ELSE IF user_id_str = None
             THEN HTTPException(HTTP_401_UNAUTHORIZED, "Could not validate credentials")
             ELSE IF user_id = ValueError
             THEN HTTPException(HTTP_401_UNAUTHORIZED, "Invalid token format")
             ELSE [user_id |-> user_id]

\* The dependency get_current_user behind HTTPBearer(): the User, or the
\* HTTPException raised.
get_current_user(credentials, repo, clock) ==
    IF credentials = NoCredentials
    THEN HTTPException(HTTP_403_FORBIDDEN, "Not authenticated")
    ELSE LET payload == decode_access_token(credentials, clock)
             user_id_str == IF "sub" \in DOMAIN payload THEN payload.sub ELSE None
             user_id == ParseUUID(user_id_str)
             user == UserRepository_get_by_id(repo, user_id)
         IN  IF IsError(payload) THEN payload
             ELSE IF user_id_str = None
             THEN HTTPException(HTTP_401_UNAUTHORIZED, "Could not validate credentials")
             ELSE IF user_id = ValueError
             THEN HTTPException(HTTP_401_UNAUTHORIZED, "Invalid token format")
             ELSE IF user = None
             THEN HTTPException(HTTP_401_UNAUTHORIZED, "User not found")
             ELSE user

authenticate_user(username, password, repo) ==
    LET user == UserRepository_get_by_username(repo, username)
    IN  IF user = None THEN None
        ELSE IF ~verify_password(user, password) THEN None
        ELSE user

\* ------------------------------------------------------------ app/routes.py
ProgressSchema(habit) ==
    [completedEntries |-> habit.progress.completed_entries,
     totalEntries |-> habit.progress.total_entries,
     percentage |-> percentage(habit.progress)]

StreakSchema(habit) == [count |-> habit.streak.count]

habit_to_response(habit) ==
    [habitId |-> habit.habit_id, userId |-> habit.user_id, title |-> habit.title,
     description |-> habit.description, progress |-> ProgressSchema(habit),
     streak |-> StreakSchema(habit), created_at |-> habit.created_at,
     updated_at |-> habit.updated_at]

habit_to_completion_response(habit) ==
    [habitId |-> habit.habit_id, progress |-> ProgressSchema(habit),
     streak |-> StreakSchema(habit)]

habit_to_progress_response(habit) ==
    [progress |-> ProgressSchema(habit), streak |-> StreakSchema(habit)]

\* What a handler leaves behind: its response (status, detail, body) and the
\* habit store (repo, objects) after it.
Raise(exc, repo, objects) ==
    [status |-> exc.status, detail |-> exc.detail, body |-> None,
     repo |-> repo, objects |-> objects]

Return(status_code, body, repo, objects) ==
    [status |-> status_code, detail |-> "", body |-> body,
     repo |-> repo, objects |-> objects]

\* POST /api/auth/login: the TokenResponse, or the HTTPException raised.
TokenResponse(accessToken) == [accessToken |-> accessToken, tokenType |-> "Bearer"]

\* Fault seeded in login: the identity claim is the id of the first user ever
\* created instead of the authenticated one.
login_first(username, password, repo, clock) ==
    LET user == authenticate_user(username, password, repo)
    IN  IF user = None
        THEN HTTPException(HTTP_401_UNAUTHORIZED, "Incorrect username or password")
        ELSE [status |-> HTTP_200_OK, detail |-> "",
              body |-> TokenResponse(
                  create_access_token([sub |-> uuid_str("u1")],
                                      timedelta(ACCESS_TOKEN_EXPIRE_MINUTES), clock))]

login(username, password, repo, clock) ==
    LET user == authenticate_user(username, password, repo)
    IN  IF user = None
        THEN HTTPException(HTTP_401_UNAUTHORIZED, "Incorrect username or password")
        ELSE [status |-> HTTP_200_OK, detail |-> "",
              body |-> TokenResponse(
                  create_access_token([sub |-> uuid_str(user.user_id)],
                                      timedelta(ACCESS_TOKEN_EXPIRE_MINUTES), clock))]

HabitNotFound(habitId) ==
    HTTPException(HTTP_404_NOT_FOUND, <<"Habit with id", habitId, "not found">>)

\* Fault seeded in create_habit: the owner is the userId of the request body
\* (here the first user's) instead of the caller.
create_habit_foreign(habit_id, title, description, current_user, repo, objects, clock) ==
    LET habit == HabitCreate(habit_id, "u1", title, description, clock)
    IN  Return(HTTP_201_CREATED, habit_to_response(habit),
               HabitRepository_save(repo, habit_id),
               DictSet(objects, habit_id, habit))

create_habit(habit_id, title, description, current_user, repo, objects, clock) ==
    LET habit == HabitCreate(habit_id, current_user.user_id, title, description, clock)
    IN  Return(HTTP_201_CREATED, habit_to_response(habit),
               HabitRepository_save(repo, habit_id),
               DictSet(objects, habit_id, habit))

\* Fault seeded in get_habit: an absent habit answered as somebody else's.
get_habit_absent_forbidden(habitId, current_user, repo, objects) ==
    LET habit == HabitRepository_get_by_id(repo, objects, habitId)
    IN  IF habit = None \/ habit.user_id # current_user.user_id
        THEN Raise(HTTPException(HTTP_403_FORBIDDEN, "Not authorized to access this habit"),
                   repo, objects)
        ELSE Return(HTTP_200_OK, habit_to_response(habit), repo, objects)

get_habit(habitId, current_user, repo, objects) ==
    LET habit == HabitRepository_get_by_id(repo, objects, habitId)
    IN  IF habit = None THEN Raise(HabitNotFound(habitId), repo, objects)
        ELSE IF habit.user_id # current_user.user_id
        THEN Raise(HTTPException(HTTP_403_FORBIDDEN, "Not authorized to access this habit"),
                   repo, objects)
        ELSE Return(HTTP_200_OK, habit_to_response(habit), repo, objects)

\* Fault seeded in complete_habit: the caller becomes the owner of the habit.
complete_habit_adopting(habitId, current_user, repo, objects, clock) ==
    LET habit == HabitRepository_get_by_id(repo, objects, habitId)
        done == [complete(habit, clock) EXCEPT !.user_id = current_user.user_id]
    IN  IF habit = None THEN Raise(HabitNotFound(habitId), repo, objects)
        ELSE Return(HTTP_200_OK, habit_to_completion_response(done),
                    HabitRepository_save(repo, done.habit_id),
                    [objects EXCEPT ![repo[habitId]] = done])

\* Fault seeded in complete_habit: the ownership check is missing.
complete_habit_unguarded(habitId, current_user, repo, objects, clock) ==
    LET habit == HabitRepository_get_by_id(repo, objects, habitId)
        done == complete(habit, clock)
    IN  IF habit = None THEN Raise(HabitNotFound(habitId), repo, objects)
        ELSE Return(HTTP_200_OK, habit_to_completion_response(done),
                    HabitRepository_save(repo, done.habit_id),
                    [objects EXCEPT ![repo[habitId]] = done])

complete_habit(habitId, current_user, repo, objects, clock) ==
    LET habit == HabitRepository_get_by_id(repo, objects, habitId)
        done == complete(habit, clock)
    IN  IF habit = None THEN Raise(HabitNotFound(habitId), repo, objects)
        ELSE IF habit.user_id # current_user.user_id
        THEN Raise(HTTPException(HTTP_403_FORBIDDEN, "Not authorized to modify this habit"),
                   repo, objects)
        ELSE Return(HTTP_200_OK, habit_to_completion_response(done),
                    HabitRepository_save(repo, done.habit_id),
                    [objects EXCEPT ![repo[habitId]] = done])

\* Fault seeded in miss_habit: a habit whose streak is already 0 is refused.
miss_habit_refusing(habitId, current_user, repo, objects, clock) ==
    LET habit == HabitRepository_get_by_id(repo, objects, habitId)
        done == miss(habit, clock)
    IN  IF habit = None THEN Raise(HabitNotFound(habitId), repo, objects)
        ELSE IF habit.user_id # current_user.user_id \/ habit.streak.count = 0
        THEN Raise(HTTPException(HTTP_403_FORBIDDEN, "Not authorized to modify this habit"),
                   repo, objects)
        ELSE Return(HTTP_200_OK, habit_to_completion_response(done),
                    HabitRepository_save(repo, done.habit_id),
                    [objects EXCEPT ![repo[habitId]] = done])

\* Fault seeded in miss_habit: habit.miss() runs before the ownership check.
miss_habit_eager(habitId, current_user, repo, objects, clock) ==
    LET habit == HabitRepository_get_by_id(repo, objects, habitId)
        done == miss(habit, clock)
    IN  IF habit = None THEN Raise(HabitNotFound(habitId), repo, objects)
        ELSE IF habit.user_id # current_user.user_id
        THEN Raise(HTTPException(HTTP_403_FORBIDDEN, "Not authorized to modify this habit"),
                   repo, [objects EXCEPT ![repo[habitId]] = done])
        ELSE Return(HTTP_200_OK, habit_to_completion_response(done),
                    HabitRepository_save(repo, done.habit_id),
                    [objects EXCEPT ![repo[habitId]] = done])

miss_habit(habitId, current_user, repo, objects, clock) ==
    LET habit == HabitRepository_get_by_id(repo, objects, habitId)
        done == miss(habit, clock)
    IN  IF habit = None THEN Raise(HabitNotFound(habitId), repo, objects)
        ELSE IF habit.user_id # current_user.user_id
        THEN Raise(HTTPException(HTTP_403_FORBIDDEN, "Not authorized to modify this habit"),
                   repo, objects)
        ELSE Return(HTTP_200_OK, habit_to_completion_response(done),
                    HabitRepository_save(repo, done.habit_id),
                    [objects EXCEPT ![repo[habitId]] = done])

\* Fault seeded in get_habit_progress: reading the progress resets the streak.
get_habit_progress_resetting(habitId, current_user, repo, objects) ==
    LET habit == HabitRepository_get_by_id(repo, objects, habitId)
    IN  IF habit = None THEN Raise(HabitNotFound(habitId), repo, objects)
        ELSE IF habit.user_id # current_user.user_id
        THEN Raise(HTTPException(HTTP_403_FORBIDDEN, "Not authorized to access this habit"),
                   repo, objects)
        ELSE Return(HTTP_200_OK, habit_to_progress_response(habit), repo,
                    [objects EXCEPT ![repo[habitId]].streak = reset(@)])

get_habit_progress(habitId, current_user, repo, objects) ==
    LET habit == HabitRepository_get_by_id(repo, objects, habitId)
    IN  IF habit = None THEN Raise(HabitNotFound(habitId), repo, objects)
        ELSE IF habit.user_id # current_user.user_id
        THEN Raise(HTTPException(HTTP_403_FORBIDDEN, "Not authorized to access this habit"),
                   repo, objects)
        ELSE Return(HTTP_200_OK, habit_to_progress_response(habit), repo, objects)

\* ------------------------------------------------------------ requests
\* The bearer credentials a request can carry.
\* The valid ones are the tokens issued at time 0 (the auth_token fixtures of
\* tests/conftest.py, and what login returns then).
FarExpiry == 0 + ACCESS_TOKEN_EXPIRE_MINUTES
Credentials ==
    {create_access_token([sub |-> uuid_str(u)], None, 0) : u \in UserIds}
        \cup {jwt_encode([sub |-> uuid_str(u), exp |-> -1], SECRET_KEY) : u \in UserIds}
        \cup {jwt_encode([sub |-> OtherText("not-a-uuid"), exp |-> FarExpiry], SECRET_KEY),
              jwt_encode([exp |-> FarExpiry], SECRET_KEY),
              jwt_encode([sub |-> uuid_str("u1"), exp |-> FarExpiry], "another-key"),
              [payload |-> [sub |-> uuid_str("u1"), exp |-> FarExpiry],
               signature |-> Sign([sub |-> uuid_str("u2"), exp |-> FarExpiry], SECRET_KEY)],
              MalformedToken, NoCredentials}

NoRequest == [op |-> "none"]

\* The history seen is kept up to date unless it starts out as Untracked.
Untracked == [untracked |-> TRUE]
Track(new) == seen' = IF seen = Untracked THEN seen ELSE new

\* The history session is kept up to date unless it starts out as Untracked.
Sent(credentials) ==
    session' = IF session = Untracked THEN session
               ELSE [session EXCEPT !.sent = credentials]

Served(op, habitId, auth, r) ==
    [op |-> op, habitId |-> habitId,
     user |-> IF IsError(auth) THEN "None" ELSE auth.user_id,
     status |-> r.status, detail |-> r.detail, body |-> r.body]

Rejected(exc) == [status |-> exc.status, detail |-> exc.detail, body |-> None]

\* ----------------------------------------------------------------- actions
InitStores ==
    /\ now = 0
    /\ user_repository = [users |-> EmptyDict, username_index |-> EmptyDict]
    /\ habit_repository = EmptyDict
    /\ heap = EmptyDict
    /\ calls = EmptyDict
    /\ last = NoRequest
    /\ threads = <<>>
    /\ drawn = {}

Init == InitStores /\ seen = Untracked /\ session = Untracked /\ progress = NewProgress

\* The clock advances between (never inside) the steps.
Tick ==
    /\ now < MaxClock
    /\ now' = now + 1
    /\ last' = NoRequest
    /\ UNCHANGED <<user_repository, habit_repository, heap, calls, seen, progress, threads,
                 drawn, session>>

\* main.startup_event
Startup ==
    /\ HasFresh(UserIds, drawn)
    /\ \E user_id \in {uuid4(UserIds, drawn)}, salt \in Salts :
          IF UserRepository_get_by_username(user_repository, "test_user") = None
          THEN /\ user_repository' =
                      UserRepository_save(user_repository,
                          UserCreate(user_id, "test_user", "test_password", salt, now))
               /\ drawn' = drawn \cup {user_id}
          ELSE UNCHANGED <<user_repository, drawn>>
    /\ last' = NoRequest
    /\ UNCHANGED <<now, habit_repository, heap, calls, seen, progress, threads, session>>

\* User.create + user_repository.save, as the fixtures of tests/conftest.py do.
SaveUser ==
    /\ HasFresh(UserIds, drawn)
    /\ \E user_id \in {uuid4(UserIds, drawn)},
          username \in Usernames, password \in Passwords, salt \in Salts :
          /\ user_repository' = UserRepository_save(user_repository,
                                    UserCreate(user_id, username, password, salt, now))
          /\ drawn' = drawn \cup {user_id}
    /\ last' = NoRequest
    /\ UNCHANGED <<now, habit_repository, heap, calls, seen, progress, threads, session>>

\* POST /api/habits
CreateHabit ==
    /\ HasFresh(HabitIds, drawn)
    /\ \E credentials \in Credentials, title \in Titles, description \in Descriptions,
          habit_id \in {uuid4(HabitIds, drawn)} :
        LET auth == get_current_user(credentials, user_repository, now)
            r == create_habit(habit_id, title, description, auth,
                              habit_repository, heap, now)
        IN  /\ Sent(credentials)
            /\ IF IsError(auth)
               THEN /\ last' = Served("create_habit", "None", auth, Rejected(auth))
                    /\ UNCHANGED <<habit_repository, heap, calls, seen, drawn>>
               ELSE /\ last' = Served("create_habit", "None", auth, r)
                    /\ habit_repository' = r.repo
                    /\ heap' = r.objects
                    /\ calls' = DictSet(calls, habit_id, <<>>)
                    /\ Track(DictSet(seen, habit_id, None))
                    /\ drawn' = drawn \cup {habit_id}
    /\ UNCHANGED <<now, user_repository, progress, threads>>

\* GET /api/habits/{habitId}
GetHabit ==
    /\ \E credentials \in Credentials, habitId \in HabitIds :
        LET auth == get_current_user(credentials, user_repository, now)
            r == get_habit(habitId, auth, habit_repository, heap)
        IN  /\ Sent(credentials)
            /\ IF IsError(auth)
               THEN /\ last' = Served("get_habit", habitId, auth, Rejected(auth))
                    /\ UNCHANGED <<habit_repository, heap>>
               ELSE /\ last' = Served("get_habit", habitId, auth, r)
                    /\ habit_repository' = r.repo
                    /\ heap' = r.objects
    /\ UNCHANGED <<now, user_repository, calls, seen, progress, threads, drawn>>

\* complete()/miss() calls are served while their number is below the bound.
RECURSIVE SumLen(_, _)
SumLen(f, keys) ==
    IF keys = {} THEN 0
    ELSE LET k == CHOOSE x \in keys : TRUE
         IN  Len(f[k]) + SumLen(f, keys \ {k})

BelowBound(habitId) == SumLen(calls, DOMAIN calls) < MaxEntries

\* POST /api/habits/{habitId}/complete
CompleteHabit ==
    /\ \E credentials \in Credentials, habitId \in HabitIds :
        LET auth == get_current_user(credentials, user_repository, now)
            r == complete_habit(habitId, auth, habit_repository, heap, now)
        IN  /\ BelowBound(habitId)
            /\ Sent(credentials)
            /\ IF IsError(auth)
               THEN /\ last' = Served("complete_habit", habitId, auth, Rejected(auth))
                    /\ UNCHANGED <<habit_repository, heap, calls, seen>>
               ELSE /\ last' = Served("complete_habit", habitId, auth, r)
                    /\ habit_repository' = r.repo
                    /\ heap' = r.objects
                    /\ IF r.status = HTTP_200_OK
                       THEN /\ calls' = [calls EXCEPT ![habitId] = Append(@, "complete")]
                            /\ Track([seen EXCEPT ![habitId] = None])
                       ELSE UNCHANGED <<calls, seen>>
    /\ UNCHANGED <<now, user_repository, progress, threads, drawn>>

\* POST /api/habits/{habitId}/miss
MissHabit ==
    /\ \E credentials \in Credentials, habitId \in HabitIds :
        LET auth == get_current_user(credentials, user_repository, now)
            r == miss_habit(habitId, auth, habit_repository, heap, now)
        IN  /\ BelowBound(habitId)
            /\ Sent(credentials)
            /\ IF IsError(auth)
               THEN /\ last' = Served("miss_habit", habitId, auth, Rejected(auth))
                    /\ UNCHANGED <<habit_repository, heap, calls, seen>>
               ELSE /\ last' = Served("miss_habit", habitId, auth, r)
                    /\ habit_repository' = r.repo
                    /\ heap' = r.objects
                    /\ IF r.status = HTTP_200_OK
                       THEN /\ calls' = [calls EXCEPT ![habitId] = Append(@, "miss")]
                            /\ Track([seen EXCEPT ![habitId] = None])
                       ELSE UNCHANGED <<calls, seen>>
    /\ UNCHANGED <<now, user_repository, progress, threads, drawn>>

\* GET /api/habits/{habitId}/progress
GetProgress ==
    /\ \E credentials \in Credentials, habitId \in HabitIds :
        LET auth == get_current_user(credentials, user_repository, now)
            r == get_habit_progress(habitId, auth, habit_repository, heap)
        IN  /\ Sent(credentials)
            /\ IF IsError(auth)
               THEN /\ last' = Served("get_habit_progress", habitId, auth, Rejected(auth))
                    /\ UNCHANGED <<habit_repository, heap, seen>>
               ELSE /\ last' = Served("get_habit_progress", habitId, auth, r)
                    /\ habit_repository' = r.repo
                    /\ heap' = r.objects
                    /\ IF r.status = HTTP_200_OK
                       THEN Track([seen EXCEPT ![habitId] =
                                      [view |-> r.body, again |-> @ # None]])
                       ELSE UNCHANGED seen
    /\ UNCHANGED <<now, user_repository, calls, progress, threads, drawn>>

\* POST /api/auth/login
Login ==
    /\ \E username \in Usernames \cup {"test_user", "TestUser"},
          password \in Passwords \cup {"test_password", ""} :
        LET r == login(username, password, user_repository, now)
        IN  /\ last' = [op |-> "login", habitId |-> "None", user |-> "None",
                        username |-> username, password |-> password,
                        status |-> r.status, detail |-> r.detail, body |-> r.body]
            /\ Sent(NoCredentials)
    /\ UNCHANGED <<now, user_repository, habit_repository, heap, calls, seen, progress,
                   threads, drawn>>

\* tests/conftest.py, reset_repositories: the three dicts are cleared. The
\* Habit objects go with the last reference to them.
ResetRepositories ==
    /\ user_repository' = [users |-> EmptyDict, username_index |-> EmptyDict]
    /\ habit_repository' = EmptyDict
    /\ heap' = EmptyDict
    /\ calls' = EmptyDict
    /\ Track(EmptyDict)
    /\ last' = NoRequest
    /\ UNCHANGED <<now, progress, threads, drawn, session>>

\* The requests and the user fixtures, served within one reading of the clock.
Next ==
    \/ Startup
    \/ SaveUser
    \/ CreateHabit
    \/ GetHabit
    \/ CompleteHabit
    \/ MissHabit
    \/ GetProgress

Spec == Init /\ [][Next]_vars

\* The same with the clock advancing between the steps.
NextTime == Next \/ Tick

SpecTime == Init /\ [][NextTime]_vars

\* The same as Spec with the history seen kept.
InitSeen == InitStores /\ seen = EmptyDict /\ session = Untracked /\ progress = NewProgress

SpecSeen == InitSeen /\ [][Next]_vars

\* The same as Spec with logins, with the stores cleared between tests, and
\* with the history session kept.
InitGate ==
    /\ InitStores
    /\ seen = Untracked
    /\ session = [sent |-> NoCredentials]
    /\ progress = NewProgress

NextGate == Next \/ Login \/ ResetRepositories

SpecGate == InitGate /\ [][NextGate]_vars

\* ------------------------------------------------- the Habit aggregate alone
\* Habit.create(uuid4(), "Test", "Test") followed by complete() and miss()
\* calls on the object, as tests/test_models.py drives it.
InitDomain ==
    /\ now = 0
    /\ user_repository = [users |-> EmptyDict, username_index |-> EmptyDict]
    /\ habit_repository = EmptyDict
    /\ heap = DictSet(EmptyDict, "h1", HabitCreate("h1", "u1", "Test", "Test", 0))
    /\ calls = DictSet(EmptyDict, "h1", <<>>)
    /\ seen = Untracked
    /\ last = NoRequest
    /\ progress = NewProgress
    /\ threads = <<>>
    /\ drawn = {"h1"}
    /\ session = Untracked

HabitComplete ==
    /\ \E h \in DOMAIN heap :
          /\ Len(calls[h]) < MaxCalls
          /\ heap' = [heap EXCEPT ![h] = complete(@, now)]
          /\ calls' = [calls EXCEPT ![h] = Append(@, "complete")]
    /\ UNCHANGED <<now, user_repository, habit_repository, seen, last, progress, threads,
                 drawn, session>>

HabitMiss ==
    /\ \E h \in DOMAIN heap :
          /\ Len(calls[h]) < MaxCalls
          /\ heap' = [heap EXCEPT ![h] = miss(@, now)]
          /\ calls' = [calls EXCEPT ![h] = Append(@, "miss")]
    /\ UNCHANGED <<now, user_repository, habit_repository, seen, last, progress, threads,
                 drawn, session>>

NextDomain == HabitComplete \/ HabitMiss \/ Tick

SpecDomain == InitDomain /\ [][NextDomain]_vars

\* --------------------------------------------------- a Progress object alone
\* Progress() followed by add_completed_entry() and add_missed_entry() calls.
InitProgress == InitStores /\ seen = Untracked /\ session = Untracked /\ progress = NewProgress

AddCompletedEntry ==
    /\ progress.total_entries < MaxTotal
    /\ progress' = add_completed_entry(progress)
    /\ UNCHANGED <<now, user_repository, habit_repository, heap, calls, seen, last, threads,
                 drawn, session>>

AddMissedEntry ==
    /\ progress.total_entries < MaxTotal
    /\ progress' = add_missed_entry(progress)
    /\ UNCHANGED <<now, user_repository, habit_repository, heap, calls, seen, last, threads,
                 drawn, session>>

NextProgress == AddCompletedEntry \/ AddMissedEntry

SpecProgress == InitProgress /\ [][NextProgress]_vars

\* ------------------------------------------------- one owner and one habit
\* tests/test_routes.py, test_full_habit_workflow: the user of the fixture
\* logs in, creates a habit, and sends complete, miss and progress requests
\* for it with the token of the login.
FlowUser == UserCreate("u1", "testuser", "testpassword123", "salt1", 0)
FlowUsers ==
    UserRepository_save([users |-> EmptyDict, username_index |-> EmptyDict], FlowUser)
FlowToken == login("testuser", "testpassword123", FlowUsers, 0).body.accessToken
FlowHabit ==
    create_habit("h1", "Test Habit", "", get_current_user(FlowToken, FlowUsers, 0),
                 EmptyDict, EmptyDict, 0)

InitFlow ==
    /\ now = 0
    /\ user_repository = FlowUsers
    /\ habit_repository = FlowHabit.repo
    /\ heap = FlowHabit.objects
    /\ calls = DictSet(EmptyDict, "h1", <<>>)
    /\ seen = Untracked
    /\ last = NoRequest
    /\ progress = NewProgress
    /\ threads = <<>>
    /\ drawn = {"u1", "h1"}
    /\ session = Untracked

FlowFrame == UNCHANGED <<now, user_repository, seen, progress, threads, drawn, session>>

FlowComplete ==
    /\ Len(calls["h1"]) < MaxFlow
    /\ LET auth == get_current_user(FlowToken, user_repository, now)
           r == complete_habit("h1", auth, habit_repository, heap, now)
       IN  /\ last' = Served("complete_habit", "h1", auth, r)
           /\ habit_repository' = r.repo
           /\ heap' = r.objects
           /\ calls' = [calls EXCEPT !["h1"] = Append(@, "complete")]
    /\ FlowFrame

FlowMiss ==
    /\ Len(calls["h1"]) < MaxFlow
    /\ LET auth == get_current_user(FlowToken, user_repository, now)
           r == miss_habit("h1", auth, habit_repository, heap, now)
       IN  /\ last' = Served("miss_habit", "h1", auth, r)
           /\ habit_repository' = r.repo
           /\ heap' = r.objects
           /\ calls' = [calls EXCEPT !["h1"] = Append(@, "miss")]
    /\ FlowFrame

FlowProgress ==
    /\ LET auth == get_current_user(FlowToken, user_repository, now)
           r == get_habit_progress("h1", auth, habit_repository, heap)
       IN  /\ last' = Served("get_habit_progress", "h1", auth, r)
           /\ habit_repository' = r.repo
           /\ heap' = r.objects
    /\ UNCHANGED calls
    /\ FlowFrame

NextFlow == FlowComplete \/ FlowMiss \/ FlowProgress

SpecFlow == InitFlow /\ [][NextFlow]_vars

\* ------------------------------------------------------ the tokens alone
\* tests/test_auth.py: a token is made by create_access_token for the stored
\* user, with or without an expires_delta, and handed to decode_access_token
\* and to get_current_user while the clock advances past its expiry. session
\* holds the token in hand with the arguments and the time of its making.
TokenCreate ==
    /\ \E data \in {[sub |-> uuid_str("u1")],
                     [sub |-> uuid_str("u1"), custom_claim |-> "test_value"],
                     [sub |-> uuid_str("u1"), exp |-> 0]},
          expires_delta \in {None, timedelta(-1), timedelta(0), timedelta(1), timedelta(2)} :
          LET r == create_access_token_call(data, expires_delta, now)
          IN  session' = [sent |-> r.token, data |-> data, expires_delta |-> expires_delta,
                          issued_at |-> now, data_after |-> r.data]
    /\ last' = NoRequest
    /\ UNCHANGED <<now, user_repository, habit_repository, heap, calls, seen, progress,
                   threads, drawn>>

TokenDecode ==
    /\ session.sent # NoCredentials
    /\ last' = [op |-> "decode_access_token",
                result |-> decode_access_token(session.sent, now)]
    /\ UNCHANGED <<now, user_repository, habit_repository, heap, calls, seen, progress,
                   threads, drawn, session>>

TokenResolve ==
    /\ session.sent # NoCredentials
    /\ last' = [op |-> "get_current_user",
                result |-> get_current_user(session.sent, user_repository, now)]
    /\ UNCHANGED <<now, user_repository, habit_repository, heap, calls, seen, progress,
                   threads, drawn, session>>

\* The clock runs until a token made at the latest time of Tick with the
\* default lifetime has expired.
TokenTick ==
    /\ now < MaxClock + ACCESS_TOKEN_EXPIRE_MINUTES + 1
    /\ now' = now + 1
    /\ last' = NoRequest
    /\ UNCHANGED <<user_repository, habit_repository, heap, calls, seen, progress, threads,
                   drawn, session>>

\* The user of the fixture is stored; no token has been made.
InitToken ==
    /\ now = 0
    /\ user_repository = FlowUsers
    /\ habit_repository = EmptyDict
    /\ heap = EmptyDict
    /\ calls = EmptyDict
    /\ seen = Untracked
    /\ last = NoRequest
    /\ progress = NewProgress
    /\ threads = <<>>
    /\ drawn = {"u1"}
    /\ session = [sent |-> NoCredentials]

SpecToken ==
    /\ InitToken
    /\ [][\/ TokenCreate
          \/ TokenDecode
          \/ TokenResolve
          \/ TokenTick]_vars

\* -------------------------------------------- the credential store alone
\* tests/test_repository.py, TestUserRepository, and tests/test_auth.py,
\* TestAuthenticateUser: users made by User.create are saved, under names and
\* passwords of the fixtures, and authenticate_user is called with these and
\* with a name and a password of no user.
UserSave ==
    /\ HasFresh(UserIds, drawn)
    /\ \E user_id \in {uuid4(UserIds, drawn)},
          username \in {"testuser", "testuser2"},
          password \in {"testpassword123", "testpassword456"}, salt \in Salts :
          /\ user_repository' = UserRepository_save(user_repository,
                                    UserCreate(user_id, username, password, salt, now))
          /\ drawn' = drawn \cup {user_id}
          /\ last' = [op |-> "save", user_id |-> user_id]
    /\ UNCHANGED <<now, habit_repository, heap, calls, seen, progress, threads, session>>

UserAuthenticate ==
    /\ \E username \in {"testuser", "testuser2", "nonexistent"},
          password \in {"testpassword123", "testpassword456", "wrongpassword"} :
          last' = [op |-> "authenticate_user", username |-> username,
                   password |-> password,
                   result |-> authenticate_user(username, password, user_repository)]
    /\ UNCHANGED <<now, user_repository, habit_repository, heap, calls, seen, progress,
                   threads, drawn, session>>

SpecUsers == Init /\ [][UserSave \/ UserAuthenticate]_vars

\* ------------------------------------------------- the habit store alone
\* tests/test_repository.py, TestHabitRepository: habits made by Habit.create
\* are saved, completed, saved again, deleted and looked up in one
\* HabitRepository. An object outlives its record: the caller keeps it.
\* habit = Habit.create(uuid4(), "Test", "Desc")
StoreCreate ==
    /\ HasFresh(HabitIds, drawn)
    /\ LET habit_id == uuid4(HabitIds, drawn)
       IN  /\ heap' = DictSet(heap, habit_id, HabitCreate(habit_id, "u1", "Test", "Desc", now))
           /\ drawn' = drawn \cup {habit_id}
    /\ last' = NoRequest
    /\ UNCHANGED <<habit_repository, calls>>
    /\ UNCHANGED <<now, user_repository, seen, progress, threads, session>>

\* habit.complete()
StoreComplete ==
    /\ \E h \in DOMAIN heap :
          /\ Len(heap[h].entries) < MaxEntries
          /\ heap' = [heap EXCEPT ![h] = complete(@, now)]
    /\ last' = NoRequest
    /\ UNCHANGED <<habit_repository, calls, drawn>>
    /\ UNCHANGED <<now, user_repository, seen, progress, threads, session>>

\* repo.save(habit)
StoreSave ==
    /\ SumLen(calls, DOMAIN calls) < MaxStore
    /\ \E h \in DOMAIN heap :
          /\ habit_repository' = HabitRepository_save(habit_repository, heap[h].habit_id)
          /\ calls' = DictSet(calls, h, Append(IF h \in DOMAIN calls THEN calls[h]
                                                   ELSE <<>>, "save"))
          /\ last' = [op |-> "save", habit_id |-> heap[h].habit_id, result |-> heap[h]]
    /\ UNCHANGED <<heap, drawn>>
    /\ UNCHANGED <<now, user_repository, seen, progress, threads, session>>

\* repo.delete(habit_id), for the id of a habit or for a uuid4() of no habit
StoreDelete ==
    /\ SumLen(calls, DOMAIN calls) < MaxStore
    /\ \E habit_id \in HabitIds :
          LET r == HabitRepository_delete(habit_repository, habit_id)
          IN  /\ habit_repository' = r.repo
              /\ calls' = DictSet(calls, habit_id,
                                  Append(IF habit_id \in DOMAIN calls THEN calls[habit_id]
                                         ELSE <<>>, "delete"))
              /\ last' = [op |-> "delete", habit_id |-> habit_id, result |-> r.result]
    /\ UNCHANGED <<heap, drawn>>
    /\ UNCHANGED <<now, user_repository, seen, progress, threads, session>>

\* repo.get_by_id(habit_id)
StoreGetById ==
    /\ \E habit_id \in HabitIds :
          last' = [op |-> "get_by_id", habit_id |-> habit_id,
                   result |-> HabitRepository_get_by_id(habit_repository, heap, habit_id)]
    /\ UNCHANGED <<habit_repository, heap, calls, drawn>>
    /\ UNCHANGED <<now, user_repository, seen, progress, threads, session>>

\* repo.exists(habit_id)
StoreExists ==
    /\ \E habit_id \in HabitIds :
          last' = [op |-> "exists", habit_id |-> habit_id,
                   result |-> HabitRepository_exists(habit_repository, habit_id)]
    /\ UNCHANGED <<habit_repository, heap, calls, drawn>>
    /\ UNCHANGED <<now, user_repository, seen, progress, threads, session>>

\* repo.get_all()
StoreGetAll ==
    /\ last' = [op |-> "get_all", habit_id |-> "None",
                result |-> HabitRepository_get_all(habit_repository)]
    /\ UNCHANGED <<habit_repository, heap, calls, drawn>>
    /\ UNCHANGED <<now, user_repository, seen, progress, threads, session>>

\* The repository starts out empty (the fixture fresh_habit_repository).
SpecStore ==
    /\ Init
    /\ [][\/ StoreCreate
          \/ StoreComplete
          \/ StoreSave
          \/ StoreDelete
          \/ StoreGetById
          \/ StoreExists
          \/ StoreGetAll]_vars

\* ------------------------------------------------ requests served at once
\* The endpoints are plain def functions, which FastAPI runs on the threads of
\* a pool: the handlers of requests in flight interleave. Nothing in the handlers
\* or the repositories takes a lock. A step below is one attribute read, one
\* attribute write or one call of a built-in; self.x += 1 is a read of x
\* followed by a write, between which other threads may run.
ThreadIds == 1..NThreads
ConcOps == {"complete_habit", "miss_habit", "get_habit_progress", "get_habit"}
Idle == [pc |-> "idle"]
NoView == [completedEntries |-> -1, totalEntries |-> -1, percentage |-> -1, count |-> -1]

\* One user, and one habit of that user just created by create_habit.
ConcUser == UserCreate("u1", "testuser", "testpassword123", "salt1", 0)
ConcHabit == create_habit("h1", "Test Habit", "", ConcUser, EmptyDict, EmptyDict, 0)
ConcToken == create_access_token([sub |-> uuid_str("u1")], None, 0)

InitConc ==
    /\ now = 0
    /\ user_repository =
           UserRepository_save([users |-> EmptyDict, username_index |-> EmptyDict],
                               ConcUser)
    /\ habit_repository = ConcHabit.repo
    /\ heap = ConcHabit.objects
    /\ calls = EmptyDict
    /\ seen = Untracked
    /\ last = NoRequest
    /\ progress = NewProgress
    /\ threads = [t \in ThreadIds |-> Idle]
    /\ drawn = {"u1", "h1"}
    /\ session = Untracked

Goto(t, pc) == [threads EXCEPT ![t].pc = pc]

ConcFrame == UNCHANGED <<now, user_repository, calls, seen, last, progress, drawn, session>>

\* A request arrives and get_current_user resolves its caller.
Arrive(t) ==
    /\ threads[t].pc = "idle"
    /\ \E op \in ConcOps, habitId \in {"h1"} :
          LET auth == get_current_user(ConcToken, user_repository, now)
          IN  threads' = [threads EXCEPT ![t] =
                  IF IsError(auth)
                  THEN [pc |-> "done", op |-> op, status |-> auth.status]
                  ELSE [pc |-> "load", op |-> op, habitId |-> habitId,
                        current_user |-> auth, habit |-> "None", tmp |-> 0,
                        view |-> NoView, status |-> 0]]
    /\ UNCHANGED <<habit_repository, heap>>
    /\ ConcFrame

\* habit = habit_repository.get_by_id(habitId), and the two checks on it.
Load(t) ==
    /\ threads[t].pc = "load"
    /\ LET me == threads[t]
           habit == HabitRepository_get_by_id(habit_repository, heap, me.habitId)
       IN  threads' = [threads EXCEPT ![t] =
               IF habit = None
               THEN [me EXCEPT !.pc = "done", !.status = HTTP_404_NOT_FOUND]
               ELSE IF habit.user_id # me.current_user.user_id
               THEN [me EXCEPT !.pc = "done", !.status = HTTP_403_FORBIDDEN]
               ELSE [me EXCEPT !.habit = habit_repository[me.habitId],
                               !.pc = IF me.op \in {"complete_habit", "miss_habit"}
                                      THEN "append" ELSE "resp_completed"]]
    /\ UNCHANGED <<habit_repository, heap>>
    /\ ConcFrame

\* self.entries.append(entry)
AppendEntry(t) ==
    /\ threads[t].pc = "append"
    /\ heap' = [heap EXCEPT ![threads[t].habit].entries =
                   Append(@, HabitEntry(threads[t].op = "complete_habit", now))]
    /\ threads' = Goto(t, IF threads[t].op = "complete_habit"
                          THEN "rd_completed" ELSE "rd_total")
    /\ UNCHANGED habit_repository
    /\ ConcFrame

\* self.completed_entries += 1: the read
ReadCompleted(t) ==
    /\ threads[t].pc = "rd_completed"
    /\ threads' = [threads EXCEPT
           ![t].tmp = heap[threads[t].habit].progress.completed_entries,
           ![t].pc = "wr_completed"]
    /\ UNCHANGED <<habit_repository, heap>>
    /\ ConcFrame

\* self.completed_entries += 1: the write
WriteCompleted(t) ==
    /\ threads[t].pc = "wr_completed"
    /\ heap' = [heap EXCEPT ![threads[t].habit].progress.completed_entries =
                   threads[t].tmp + 1]
    /\ threads' = Goto(t, "rd_total")
    /\ UNCHANGED habit_repository
    /\ ConcFrame

\* self.total_entries += 1: the read
ReadTotal(t) ==
    /\ threads[t].pc = "rd_total"
    /\ threads' = [threads EXCEPT
           ![t].tmp = heap[threads[t].habit].progress.total_entries,
           ![t].pc = "wr_total"]
    /\ UNCHANGED <<habit_repository, heap>>
    /\ ConcFrame

\* self.total_entries += 1: the write
WriteTotal(t) ==
    /\ threads[t].pc = "wr_total"
    /\ heap' = [heap EXCEPT ![threads[t].habit].progress.total_entries =
                   threads[t].tmp + 1]
    /\ threads' = Goto(t, IF threads[t].op = "complete_habit"
                          THEN "rd_streak" ELSE "reset")
    /\ UNCHANGED habit_repository
    /\ ConcFrame

\* Streak.increment, self.count += 1: the read
ReadStreak(t) ==
    /\ threads[t].pc = "rd_streak"
    /\ threads' = [threads EXCEPT
           ![t].tmp = heap[threads[t].habit].streak.count,
           ![t].pc = "wr_streak"]
    /\ UNCHANGED <<habit_repository, heap>>
    /\ ConcFrame

\* Streak.increment, self.count += 1: the write
WriteStreak(t) ==
    /\ threads[t].pc = "wr_streak"
    /\ heap' = [heap EXCEPT ![threads[t].habit].streak.count = threads[t].tmp + 1]
    /\ threads' = Goto(t, "stamp")
    /\ UNCHANGED habit_repository
    /\ ConcFrame

\* Streak.reset, self.count = 0
ResetStreak(t) ==
    /\ threads[t].pc = "reset"
    /\ heap' = [heap EXCEPT ![threads[t].habit].streak = reset(@)]
    /\ threads' = Goto(t, "stamp")
    /\ UNCHANGED habit_repository
    /\ ConcFrame

\* self.updated_at = datetime.now()
Stamp(t) ==
    /\ threads[t].pc = "stamp"
    /\ heap' = [heap EXCEPT ![threads[t].habit].updated_at = now]
    /\ threads' = Goto(t, "save")
    /\ UNCHANGED habit_repository
    /\ ConcFrame

\* habit_repository.save(habit)
Save(t) ==
    /\ threads[t].pc = "save"
    /\ habit_repository' =
           HabitRepository_save(habit_repository, heap[threads[t].habit].habit_id)
    /\ threads' = Goto(t, "resp_completed")
    /\ UNCHANGED heap
    /\ ConcFrame

\* The response is assembled field by field from the Habit object:
\* completedEntries=habit.progress.completed_entries
RespCompleted(t) ==
    /\ threads[t].pc = "resp_completed"
    /\ threads' = [threads EXCEPT
           ![t].view.completedEntries = heap[threads[t].habit].progress.completed_entries,
           ![t].pc = "resp_total"]
    /\ UNCHANGED <<habit_repository, heap>>
    /\ ConcFrame

\* totalEntries=habit.progress.total_entries
RespTotal(t) ==
    /\ threads[t].pc = "resp_total"
    /\ threads' = [threads EXCEPT
           ![t].view.totalEntries = heap[threads[t].habit].progress.total_entries,
           ![t].pc = "resp_percentage"]
    /\ UNCHANGED <<habit_repository, heap>>
    /\ ConcFrame

\* percentage=habit.progress.percentage
RespPercentage(t) ==
    /\ threads[t].pc = "resp_percentage"
    /\ threads' = [threads EXCEPT
           ![t].view.percentage = percentage(heap[threads[t].habit].progress),
           ![t].pc = "resp_streak"]
    /\ UNCHANGED <<habit_repository, heap>>
    /\ ConcFrame

\* streak=StreakSchema(count=habit.streak.count), and the response is returned
RespStreak(t) ==
    /\ threads[t].pc = "resp_streak"
    /\ threads' = [threads EXCEPT
           ![t].view.count = heap[threads[t].habit].streak.count,
           ![t].status = HTTP_200_OK,
           ![t].pc = "done"]
    /\ UNCHANGED <<habit_repository, heap>>
    /\ ConcFrame

NextConc ==
    \E t \in ThreadIds :
        \/ Arrive(t)
        \/ Load(t)
        \/ AppendEntry(t)
        \/ ReadCompleted(t)
        \/ WriteCompleted(t)
        \/ ReadTotal(t)
        \/ WriteTotal(t)
        \/ ReadStreak(t)
        \/ WriteStreak(t)
        \/ ResetStreak(t)
        \/ Stamp(t)
        \/ Save(t)
        \/ RespCompleted(t)
        \/ RespTotal(t)
        \/ RespPercentage(t)
        \/ RespStreak(t)

SpecConc == InitConc /\ [][NextConc]_vars

\* habit_repository.delete(habit_id), called once on another thread while the
\* requests are in flight. No endpoint calls it; the Habit object stays alive
\* in the hands of the handlers that loaded it.
ConcDelete ==
    /\ last = NoRequest
    /\ \E habit_id \in {"h1"} :
          LET r == HabitRepository_delete(habit_repository, habit_id)
          IN  /\ habit_repository' = r.repo
              /\ last' = [op |-> "delete", habitId |-> habit_id, result |-> r.result]
    /\ UNCHANGED <<now, user_repository, heap, calls, seen, progress, threads, drawn,
                   session>>

SpecConcDelete == InitConc /\ [][NextConc \/ ConcDelete]_vars

\* ================================================================== claims
HabitOps == {"get_habit", "complete_habit", "miss_habit", "get_habit_progress"}

IsRequest(l) == l # NoRequest

\* The calls made on a habit after its most recent miss().
RECURSIVE TrailingCompletes(_)
TrailingCompletes(cs) ==
    IF cs = <<>> THEN 0
    ELSE IF cs[Len(cs)] = "miss" THEN 0
    ELSE 1 + TrailingCompletes(SubSeq(cs, 1, Len(cs) - 1))

Made(h, call) == \E i \in 1..Len(calls[h]) : calls[h][i] = call

\* C1: after every sequence of complete() and miss() calls on a habit, the
\* number of entries in its log equals progress.total_entries (and the number
\* of calls made).
C1_EntriesEqualTotal ==
    \A h \in DOMAIN heap :
        /\ Len(heap[h].entries) = heap[h].progress.total_entries
        /\ Len(heap[h].entries) = Len(calls[h])

C1_Witness ==
    \E h \in DOMAIN heap :
        /\ Len(calls[h]) >= 3
        /\ Made(h, "complete") /\ Made(h, "miss")
        /\ heap[h].progress.total_entries = Len(calls[h])

\* C2: after every sequence of complete() and miss() calls on a habit,
\* streak.count is the number of complete() calls made after the most recent
\* miss(), or since creation when there was no miss().
C2_StreakIsTrailingCompletes ==
    \A h \in DOMAIN heap : heap[h].streak.count = TrailingCompletes(calls[h])

C2_Witness ==
    \E h \in DOMAIN heap :
        /\ Len(calls[h]) >= 4
        /\ calls[h][Len(calls[h]) - 2] = "miss"
        /\ heap[h].streak.count = 2

\* C7: in every state reached by complete() and miss() calls from a fresh
\* habit, 0 <= completed_entries <= total_entries.
C7_CompletedAtMostTotal ==
    \A h \in DOMAIN heap :
        /\ 0 <= heap[h].progress.completed_entries
        /\ heap[h].progress.completed_entries <= heap[h].progress.total_entries

C7_Witness ==
    \E h \in DOMAIN heap :
        /\ Made(h, "miss")
        /\ heap[h].progress.completed_entries >= 2
        /\ heap[h].progress.completed_entries < heap[h].progress.total_entries

\* C8: for every Progress with 0 <= completed_entries <= total_entries, the
\* percentage is floor(completed_entries * 100 / total_entries) when
\* total_entries > 0 and 0 when total_entries = 0.
C8_PercentageIsFloor ==
    percentage(progress) =
        IF progress.total_entries = 0 THEN 0
        ELSE (progress.completed_entries * 100) \div progress.total_entries

\* C3: a habit-scoped operation invoked with a valid token by a user who is
\* not the habit's owner returns Forbidden, whatever the operation and the
\* habit's state.
C3_NonOwnerForbidden ==
    (/\ IsRequest(last)
     /\ last.op \in HabitOps
     /\ last.user # "None"
     /\ last.habitId \in DOMAIN habit_repository
     /\ heap[habit_repository[last.habitId]].user_id # last.user)
        => /\ last.status = HTTP_403_FORBIDDEN
           /\ last.body = None

C3_Witness ==
    /\ IsRequest(last)
    /\ last.op = "complete_habit"
    /\ last.status = HTTP_403_FORBIDDEN
    /\ last.user \in DOMAIN user_repository.users
    /\ last.habitId \in DOMAIN habit_repository
    /\ heap[habit_repository[last.habitId]].user_id \in
           DOMAIN user_repository.users \ {last.user}
    /\ heap[habit_repository[last.habitId]].entries # <<>>

\* C4: a request that ends in Unauthenticated, Forbidden or NotFound leaves
\* the habit store and the credential store exactly as they were.
FailureStatus == {HTTP_401_UNAUTHORIZED, HTTP_403_FORBIDDEN, HTTP_404_NOT_FOUND}

C4_FailureChangesNothing ==
    [][(IsRequest(last') /\ last'.status \in FailureStatus)
          => UNCHANGED <<habit_repository, heap, user_repository>>]_vars

C4_Witness ==
    /\ IsRequest(last)
    /\ last.op = "miss_habit"
    /\ last.status = HTTP_403_FORBIDDEN
    /\ last.user # "None"
    /\ last.habitId \in DOMAIN habit_repository
    /\ heap[habit_repository[last.habitId]].streak.count > 0

\* C9: for an authenticated caller and a habit id without a record in the
\* habit store, each habit-scoped operation returns NotFound and leaves the
\* store without a record under that id.
C9_AbsentHabitNotFound ==
    [][(/\ IsRequest(last')
        /\ last'.op \in HabitOps
        /\ last'.user # "None"
        /\ last'.habitId \notin DOMAIN habit_repository)
          => /\ last'.status = HTTP_404_NOT_FOUND
             /\ last'.habitId \notin DOMAIN habit_repository']_vars

C9_Witness ==
    /\ IsRequest(last)
    /\ last.op = "get_habit"
    /\ last.status = HTTP_404_NOT_FOUND
    /\ last.user # "None"
    /\ last.habitId \notin DOMAIN habit_repository
    /\ habit_repository # EmptyDict

\* C10: a GetProgress by the owner returns the same completed, total,
\* percentage and streak values as the previous GetProgress on that habit when
\* no CompleteHabit or MissHabit on it came in between, and GetProgress and
\* GetHabit leave the habit store unchanged.
C10_ReadsAreIdempotent ==
    [][/\ (/\ IsRequest(last')
           /\ last'.op = "get_habit_progress"
           /\ last'.status = HTTP_200_OK
           /\ seen[last'.habitId] # None)
             => last'.body = seen[last'.habitId].view
       /\ (IsRequest(last') /\ last'.op \in {"get_habit_progress", "get_habit"})
             => UNCHANGED <<habit_repository, heap>>]_vars

C10_Witness ==
    /\ IsRequest(last)
    /\ last.op = "get_habit_progress"
    /\ last.status = HTTP_200_OK
    /\ seen[last.habitId] = [view |-> last.body, again |-> TRUE]
    /\ last.body.progress.totalEntries > 0
    /\ \E h \in DOMAIN seen : h # last.habitId /\ seen[h] # None

\* The habit states that complete() and miss() calls applied one after the
\* other, each as a whole, lead to from a fresh habit, as a reader sees them.
CallSeqs(n) == UNION {[1..k -> {"complete", "miss"}] : k \in 0..n}

RECURSIVE ApplyCalls(_, _)
ApplyCalls(habit, cs) ==
    IF cs = <<>> THEN habit
    ELSE ApplyCalls(IF Head(cs) = "complete" THEN complete(habit, 0) ELSE miss(habit, 0),
                    Tail(cs))

ViewOf(habit) ==
    [completedEntries |-> habit.progress.completed_entries,
     totalEntries |-> habit.progress.total_entries,
     percentage |-> percentage(habit.progress),
     count |-> habit.streak.count]

AtomicViews ==
    {ViewOf(ApplyCalls(HabitCreate("h1", "u1", "Test Habit", "", 0), cs)) :
        cs \in CallSeqs(NThreads)}

AllDone == \A t \in ThreadIds : threads[t].pc = "done"

\* C5: once N concurrent CompleteHabit calls by the owner on a habit with
\* total_entries = 0 have all returned, total_entries equals N.
C5_NoLostCompletion ==
    (/\ threads # <<>>
     /\ AllDone
     /\ \A t \in ThreadIds : threads[t].op = "complete_habit")
        => \A h \in DOMAIN heap : heap[h].progress.total_entries = NThreads

\* C6: a GetHabit or GetProgress running while a CompleteHabit or MissHabit is
\* in flight on the same habit returns the progress and streak of the habit
\* before or after whole transitions, never of a transition applied in part.
C6_ReadersSeeWholeTransitions ==
    \A t \in DOMAIN threads :
        (/\ threads[t].pc = "done"
         /\ threads[t].op \in {"get_habit", "get_habit_progress"}
         /\ threads[t].status = HTTP_200_OK)
            => threads[t].view \in AtomicViews

\* C11: from a newly created habit, the owner's CompleteHabit x7, MissHabit x1,
\* CompleteHabit x3 lead to a state where GetProgress reports completed = 10,
\* total = 11 and streak = 3.
FlowScript ==
    [i \in 1..11 |-> IF i = 8 THEN "miss" ELSE "complete"]

C11_WorkflowTotals ==
    (/\ "h1" \in DOMAIN calls
     /\ calls["h1"] = FlowScript
     /\ IsRequest(last)
     /\ last.op = "get_habit_progress")
        => /\ last.status = HTTP_200_OK
           /\ last.body.progress.completedEntries = 10
           /\ last.body.progress.totalEntries = 11
           /\ last.body.streak.count = 3

C11_Witness ==
    /\ calls["h1"] = FlowScript
    /\ IsRequest(last)
    /\ last.op = "get_habit_progress"
    /\ last.user = "u1"
    /\ last.body.progress.totalEntries = 11

\* The operations behind the access gate, and what the specification asks of a
\* token: well-formed, signed with the service's key, not expired, carrying an
\* identity claim that parses as an id.
GatedOps == HabitOps \cup {"create_habit"}

Verifies(token, clock) ==
    /\ DOMAIN token = {"payload", "signature"}
    /\ token.signature = Sign(token.payload, SECRET_KEY)
    /\ token.payload.exp >= clock

Subject(token, clock) ==
    IF /\ Verifies(token, clock)
       /\ "sub" \in DOMAIN token.payload
       /\ DOMAIN token.payload.sub = {"hex"}
    THEN token.payload.sub.hex
    ELSE "None"

Gated(l) == IsRequest(l) /\ l.op \in GatedOps

\* The token a successful login of the fixture's user stored under id u returns
\* at time 0.
LoginToken(u) ==
    login("testuser", "testpassword123",
          UserRepository_save([users |-> EmptyDict, username_index |-> EmptyDict],
                              UserCreate(u, "testuser", "testpassword123", "salt1", 0)),
          0).body.accessToken

\* C12: the access gate resolves a token to a user if and only if the token
\* verifies, carries an identity claim that parses as an id, and a user with
\* that id is stored; the user is the one with that id, and in every other
\* case the outcome is Unauthenticated.
C12_ResolvesExactlyValidTokens ==
    (Gated(last) /\ session.sent # NoCredentials)
        => IF Subject(session.sent, now) \in DOMAIN user_repository.users
           THEN /\ last.user = Subject(session.sent, now)
                /\ last.status # HTTP_401_UNAUTHORIZED
           ELSE /\ last.user = "None"
                /\ last.status = HTTP_401_UNAUTHORIZED

C12_Witness ==
    /\ Gated(last)
    /\ last.op = "get_habit"
    /\ last.user = "u2"
    /\ session.sent = LoginToken("u2")
    /\ Subject(session.sent, now) = "u2"
    /\ "u1" \in DOMAIN user_repository.users

\* C13: once the record of a user who logged in is gone from the credential
\* store, every habit operation presented with the token of that login, while
\* the token is unexpired, returns Unauthenticated and changes no habit.
C13_VanishedUserIsUnauthenticated ==
    [][\A u \in (drawn \cap UserIds) \ DOMAIN user_repository.users :
          (/\ Gated(last')
           /\ session'.sent = LoginToken(u)
           /\ Verifies(session'.sent, now))
             => /\ last'.status = HTTP_401_UNAUTHORIZED
                /\ UNCHANGED <<habit_repository, heap>>]_vars

C13_Witness ==
    /\ Gated(last)
    /\ last.op = "complete_habit"
    /\ last.status = HTTP_401_UNAUTHORIZED
    /\ \E u \in (drawn \cap UserIds) \ DOMAIN user_repository.users :
           session.sent = LoginToken(u)
    /\ Verifies(session.sent, now)
    /\ last.habitId \in DOMAIN habit_repository

\* C14: every Unauthenticated outcome of the access gate carries the same
\* generic message, whichever check failed.
C14_UnauthenticatedIsGeneric ==
    (Gated(last) /\ last.status = HTTP_401_UNAUTHORIZED)
        => last.detail = "Could not validate credentials"

\* C15: a login succeeds, for the stored user, exactly when a user with that
\* exact login name is stored and the secret matches its digest; an unknown
\* login name and a wrong or empty secret are answered with the same failure
\* and the same message.
Matching(username, password) ==
    {id \in DOMAIN user_repository.users :
        /\ user_repository.users[id].username = username
        /\ user_repository.users[id].hashed_password =
               hashpw(password, user_repository.users[id].hashed_password.salt)}

C16_GateComesFirst ==
    (/\ IsRequest(last)
     /\ last.op \in HabitOps
     /\ session.sent # NoCredentials
     /\ Subject(session.sent, now) \notin DOMAIN user_repository.users)
        => /\ last.status = HTTP_401_UNAUTHORIZED
           /\ last.status \notin {HTTP_404_NOT_FOUND, HTTP_403_FORBIDDEN}
           /\ last.body = None

\* An expired token of the owner, on the owner's habit, while another user's
\* habit is stored.
C16_Witness ==
    /\ IsRequest(last)
    /\ last.op = "miss_habit"
    /\ last.status = HTTP_401_UNAUTHORIZED
    /\ Verifies(session.sent, -1)
    /\ ~Verifies(session.sent, now)
    /\ last.habitId \in DOMAIN habit_repository
    /\ heap[habit_repository[last.habitId]].user_id = Subject(session.sent, -1)
    /\ \E h \in DOMAIN habit_repository :
           heap[habit_repository[h]].user_id # Subject(session.sent, -1)

\* C17: a gated operation sent without credentials gets an outcome (403)
\* different from the one given to credentials that are present but do not
\* resolve (401), and in both cases no habit is created or changed.
C17_AbsentDiffersFromInvalid ==
    [][Gated(last')
          => /\ session'.sent = NoCredentials
                    => /\ last'.status = HTTP_403_FORBIDDEN
                       /\ last'.detail = "Not authenticated"
                       /\ UNCHANGED <<habit_repository, heap>>
             /\ (/\ session'.sent # NoCredentials
                 /\ Subject(session'.sent, now) \notin DOMAIN user_repository.users)
                    => /\ last'.status = HTTP_401_UNAUTHORIZED
                       /\ last'.detail # "Not authenticated"
                       /\ UNCHANGED <<habit_repository, heap>>]_vars

C17_Witness ==
    /\ Gated(last)
    /\ last.op = "create_habit"
    /\ session.sent = NoCredentials
    /\ last.status = HTTP_403_FORBIDDEN
    /\ user_repository.users # EmptyDict
    /\ habit_repository # EmptyDict
    /\ HasFresh(HabitIds, drawn)

\* C18: CreateHabit by an authenticated caller stores and returns a habit
\* owned by the caller, with zero progress and streak and an empty entry log,
\* under an id that no habit in the store had, and leaves every habit that
\* was stored as it was.
C18_CreateHabitIsFresh ==
    [][(IsRequest(last') /\ last'.op = "create_habit" /\ last'.user # "None")
          => /\ last'.status = HTTP_201_CREATED
             /\ \E h \in DOMAIN habit_repository' \ DOMAIN habit_repository :
                   /\ DOMAIN habit_repository' = DOMAIN habit_repository \cup {h}
                   /\ last'.body.habitId = h
                   /\ last'.body.userId = last'.user
                   /\ last'.body.progress.completedEntries = 0
                   /\ last'.body.progress.totalEntries = 0
                   /\ last'.body.streak.count = 0
                   /\ heap'[habit_repository'[h]].habit_id = h
                   /\ heap'[habit_repository'[h]].user_id = last'.user
                   /\ heap'[habit_repository'[h]].progress = NewProgress
                   /\ heap'[habit_repository'[h]].streak = NewStreak
                   /\ heap'[habit_repository'[h]].entries = <<>>
             /\ \A g \in DOMAIN habit_repository :
                   heap'[habit_repository'[g]] = heap[habit_repository[g]]]_vars

C18_Witness ==
    /\ IsRequest(last)
    /\ last.op = "create_habit"
    /\ last.status = HTTP_201_CREATED
    /\ last.user = "u2"
    /\ \E g \in DOMAIN habit_repository :
           /\ g # last.body.habitId
           /\ heap[habit_repository[g]].user_id = "u1"
           /\ heap[habit_repository[g]].entries # <<>>

\* C19: progress.total_entries never decreases: a successful CompleteHabit or
\* MissHabit raises the total of its habit by exactly 1, and no other step of
\* the service changes the total of any habit.
C19_TotalGrowsByOne ==
    [][\A h \in DOMAIN heap :
          /\ h \in DOMAIN heap'
          /\ heap'[h].progress.total_entries - heap[h].progress.total_entries =
                 IF /\ IsRequest(last')
                    /\ last'.op \in {"complete_habit", "miss_habit"}
                    /\ last'.status = HTTP_200_OK
                    /\ habit_repository[last'.habitId] = h
                 THEN 1 ELSE 0]_vars

C19_Witness ==
    /\ IsRequest(last)
    /\ last.op = "miss_habit"
    /\ last.status = HTTP_200_OK
    /\ heap[habit_repository[last.habitId]].progress.total_entries = 2
    /\ heap[habit_repository[last.habitId]].progress.completed_entries = 1
    /\ \E g \in DOMAIN heap : heap[g].progress.total_entries = 0

\* C20: in every reachable state of the credential store no two user records
\* with different ids have the same login name.
C20_LoginNamesUnique ==
    \A a, b \in DOMAIN user_repository.users :
        a # b => user_repository.users[a].username # user_repository.users[b].username

\* The claims about the habit store are checked under SpecStore.
Present(habit_id) ==
    /\ habit_id \in DOMAIN calls
    /\ calls[habit_id][Len(calls[habit_id])] = "save"

\* C21: after any sequence of save and delete calls, get_by_id(id) is the
\* habit last saved under id when no delete(id) followed that save and None
\* otherwise, exists(id) holds exactly when get_by_id(id) is not None, and
\* get_all() holds one habit for each present id and nothing else.
C21_StoreFollowsLastCall ==
    /\ \A habit_id \in HabitIds :
          LET found == HabitRepository_get_by_id(habit_repository, heap, habit_id)
          IN  /\ found = IF Present(habit_id) THEN heap[habit_id] ELSE None
              /\ HabitRepository_exists(habit_repository, habit_id) = (found # None)
              /\ last # NoRequest /\ last.habit_id = habit_id =>
                    /\ last.op = "get_by_id" => last.result = found
                    /\ last.op = "exists" => last.result = (found # None)
    /\ LET all == HabitRepository_get_all(habit_repository)
       IN  /\ Len(all) = Cardinality({h \in HabitIds : Present(h)})
           /\ \A h \in HabitIds :
                 Present(h) =>
                    Cardinality({i \in 1..Len(all) : heap[all[i]].habit_id = h}) = 1
           /\ last # NoRequest /\ last.op = "get_all" => last.result = all

C21_Witness ==
    /\ last # NoRequest
    /\ last.op = "get_all"
    /\ Len(last.result) = 1
    /\ \E h, g \in DOMAIN calls :
          /\ calls[h] = <<"save", "save">>
          /\ heap[h].progress.completed_entries = 1
          /\ calls[g] = <<"save", "delete">>

\* C22: delete(id) returns True exactly when a record with that id was there
\* before the call, and then removes that record and no other; otherwise it
\* returns False and leaves the store as it was; a delete(id) right after a
\* successful delete(id) returns False.
C22_DeleteReportsPresence ==
    [][last' # NoRequest /\ last'.op = "delete" =>
          LET habit_id == last'.habit_id
          IN  /\ last'.result = (habit_id \in DOMAIN habit_repository)
              /\ DOMAIN habit_repository' = DOMAIN habit_repository \ {habit_id}
              /\ \A h \in DOMAIN habit_repository' :
                    habit_repository'[h] = habit_repository[h]
              /\ heap' = heap
              /\ (last # NoRequest /\ last.op = "delete" /\ last.habit_id = habit_id
                    /\ last.result) => ~last'.result]_vars

C22_Witness ==
    /\ last # NoRequest
    /\ last.op = "delete"
    /\ ~last.result
    /\ calls[last.habit_id] = <<"save", "delete", "delete">>
    /\ \E h \in DOMAIN habit_repository : h # last.habit_id

\* The login names looked up: the saved ones, their other spellings, and one
\* that no test saves.
NameProbes == Usernames \cup {"test_user", "TestUser", "TESTUSER", "nonexistent"}

\* C23: right after save(user), get_by_id(user.user_id) and
\* get_by_username(user.username) return that user and exists(user.user_id)
\* holds; get_by_username of a name no user was saved under, a name that
\* differs from a saved one in letter case included, returns None.
C23_SavedUserIsFound ==
    [][/\ \A user_id \in (drawn' \ drawn) \cap UserIds :
             LET user == user_repository'.users[user_id]
             IN  /\ user_id \in DOMAIN user_repository'.users
                 /\ user.user_id = user_id
                 /\ UserRepository_get_by_id(user_repository', user_id) = user
                 /\ UserRepository_get_by_username(user_repository', user.username) = user
                 /\ UserRepository_exists(user_repository', user_id)
       /\ \A username \in NameProbes :
             (\A u \in DOMAIN user_repository'.users :
                   user_repository'.users[u].username # username)
                => UserRepository_get_by_username(user_repository', username) = None]_vars

C23_Witness ==
    /\ \E u \in DOMAIN user_repository.users :
          /\ user_repository.users[u].username = "testuser"
          /\ UserRepository_get_by_username(user_repository, "testuser") =
                user_repository.users[u]
          /\ UserRepository_exists(user_repository, u)
    /\ UserRepository_get_by_username(user_repository, "TestUser") = None
    /\ UserRepository_get_by_username(user_repository, "TESTUSER") = None
    /\ UserRepository_get_by_username(user_repository, "nonexistent") = None

\* The claims about tokens are checked under SpecToken.
\* The time to live a token was issued with.
Ttl(expires_delta) ==
    IF expires_delta = None THEN ACCESS_TOKEN_EXPIRE_MINUTES ELSE expires_delta.minutes

TokenOps == {"decode_access_token", "get_current_user"}

\* C24: a token issued at time t with time to live d verifies at every time
\* before t + d and fails to verify at every time after t + d; with an expired
\* token get_current_user raises 401 even though the subject is a stored user.
C24_ExpiresAtIssuePlusTtl ==
    (last # NoRequest /\ last.op \in TokenOps) =>
        LET expiry == session.issued_at + Ttl(session.expires_delta)
        IN  /\ (now < expiry /\ last.op = "decode_access_token") => ~IsError(last.result)
            /\ (now < expiry /\ last.op = "get_current_user") =>
                  last.result = user_repository.users["u1"]
            /\ now > expiry =>
                  /\ IsError(last.result)
                  /\ last.result.status = HTTP_401_UNAUTHORIZED

\* C30: for every expires_delta passed, a zero and a negative one included,
\* the exp claim of the token is the time of issue plus expires_delta; the
\* default of 30 minutes is used only when none is passed.
C30_ExpiryIsIssuePlusTtl ==
    session.sent # NoCredentials =>
        session.sent.payload.exp = session.issued_at + Ttl(session.expires_delta)

Decoded == last # NoRequest /\ last.op = "decode_access_token" /\ ~IsError(last.result)

CallMade(h) ==
    IF Len(calls'[h]) = Len(calls[h]) + 1 THEN calls'[h][Len(calls'[h])] ELSE "none"

\* C26: miss() leaves progress.completed_entries as it was and sets
\* streak.count to 0 whatever it was; complete() raises completed_entries and
\* streak.count by exactly 1 each.
C26_MissResetsCompleteCounts ==
    [][\A h \in DOMAIN heap :
          /\ CallMade(h) = "miss" =>
                /\ heap'[h].progress.completed_entries = heap[h].progress.completed_entries
                /\ heap'[h].streak.count = 0
          /\ CallMade(h) = "complete" =>
                /\ heap'[h].progress.completed_entries =
                      heap[h].progress.completed_entries + 1
                /\ heap'[h].streak.count = heap[h].streak.count + 1]_vars

C26_Witness ==
    /\ calls["h1"] = <<"complete", "complete", "complete", "miss", "complete">>
    /\ heap["h1"].streak.count = 1
    /\ heap["h1"].progress.completed_entries = 4

\* C27: the entry log is append-only: each complete() or miss() appends one
\* entry at the end, completed for complete() and not completed for miss(),
\* and the log before the call is a prefix of the log after it; no other
\* step touches the log.
C27_EntriesAppendOnly ==
    [][\A h \in DOMAIN heap :
          LET before == heap[h].entries
              after == heap'[h].entries
          IN  IF CallMade(h) = "none" THEN after = before
              ELSE /\ Len(after) = Len(before) + 1
                   /\ SubSeq(after, 1, Len(before)) = before
                   /\ after[Len(after)].completed = (CallMade(h) = "complete")]_vars

C27_Witness ==
    /\ calls["h1"] = <<"miss", "complete", "miss">>
    /\ Len(heap["h1"].entries) = 3
    /\ ~heap["h1"].entries[1].completed
    /\ heap["h1"].entries[2].completed
    /\ ~heap["h1"].entries[3].completed

\* C28: for an existing habit and an authenticated caller who is its owner,
\* complete_habit and miss_habit succeed in every reachable state of the
\* habit: they answer 200, never 403, 404 or another error.
C28_OwnerAlwaysSucceeds ==
    (/\ IsRequest(last)
     /\ last.op \in {"complete_habit", "miss_habit"}
     /\ last.user # "None"
     /\ last.habitId \in DOMAIN habit_repository
     /\ heap[habit_repository[last.habitId]].user_id = last.user)
        => /\ last.status = HTTP_200_OK
           /\ last.detail = ""
           /\ last.body.habitId = last.habitId

C28_Witness ==
    /\ IsRequest(last)
    /\ last.op = "miss_habit"
    /\ last.user # "None"
    /\ last.habitId \in DOMAIN habit_repository
    /\ heap[habit_repository[last.habitId]].user_id = last.user
    /\ calls[last.habitId] = <<"miss", "miss">>
    /\ last.status = HTTP_200_OK

\* C29: with a clock that never runs backwards, created_at of a habit never
\* changes, updated_at is never earlier than created_at and never decreases,
\* after a complete() or miss() updated_at is the clock value of that call,
\* and no other request changes it.
C29_TimestampsFollowTheClock ==
    [][/\ \A h \in DOMAIN heap :
             /\ h \in DOMAIN heap'
             /\ heap'[h].created_at = heap[h].created_at
             /\ heap'[h].updated_at >= heap[h].updated_at
             /\ IF calls'[h] # calls[h]
                THEN heap'[h].updated_at = now
                ELSE heap'[h].updated_at = heap[h].updated_at
       /\ \A h \in DOMAIN heap' : heap'[h].updated_at >= heap'[h].created_at
       /\ \A h \in DOMAIN heap' \ DOMAIN heap :
             heap'[h].created_at = now /\ heap'[h].updated_at = now]_vars

C29_Witness ==
    /\ IsRequest(last)
    /\ last.op \in {"get_habit", "get_habit_progress"}
    /\ last.status = HTTP_200_OK
    /\ heap[habit_repository[last.habitId]].created_at = 0
    /\ heap[habit_repository[last.habitId]].updated_at = 1
    /\ calls[last.habitId] = <<"complete", "miss">>

\* C31: a successful login returns a token whose identity claim is the id of
\* the user it authenticated; get_current_user on that token, at any time up
\* to its expiry and with the stores as the login left them, returns that user
\* and no other; the login changes neither the credential store nor the habit
\* store.
C31_LoginTokenNamesTheUser ==
    [][(IsRequest(last') /\ last'.op = "login" /\ last'.status = HTTP_200_OK) =>
          LET user == authenticate_user(last'.username, last'.password, user_repository)
              token == last'.body.accessToken
          IN  /\ user # None
              /\ user.username = last'.username
              /\ token.payload.sub = uuid_str(user.user_id)
              /\ \A clock \in now..(now + ACCESS_TOKEN_EXPIRE_MINUTES) :
                    /\ get_current_user(token, user_repository', clock) = user
                    /\ \A v \in DOMAIN user_repository'.users :
                          v # user.user_id =>
                             get_current_user(token, user_repository', clock)
                                # user_repository'.users[v]
              /\ user_repository' = user_repository
              /\ habit_repository' = habit_repository
              /\ heap' = heap]_vars

C31_Witness ==
    /\ IsRequest(last)
    /\ last.op = "login"
    /\ last.status = HTTP_200_OK
    /\ last.username = "test_user"
    /\ Subject(last.body.accessToken, now) # "None"
    /\ user_repository.users[Subject(last.body.accessToken, now)].username = "test_user"
    /\ Cardinality(DOMAIN user_repository.users) = 2
    /\ DOMAIN habit_repository # {}

\* The claims about the credential store alone are checked under SpecUsers.
\* The stored ids saved under a login name, and the one of them saved last
\* (uuid4 returns the ids in the order of UuidOrder).
SavedUnder(username) ==
    {u \in DOMAIN user_repository.users : user_repository.users[u].username = username}

SavedLast(ids) ==
    CHOOSE u \in ids :
        \A v \in ids :
            \A i, j \in 1..Len(UuidOrder) : (UuidOrder[i] = u /\ UuidOrder[j] = v) => j <= i

\* C32: the login-name index is last-writer-wins: of the user records saved
\* under one login name get_by_username returns the one saved last, every
\* record stays retrievable by get_by_id, and authenticate_user with that name
\* checks the password of the record saved last and of no other.
C32_IndexIsLastWriterWins ==
    /\ \A u \in DOMAIN user_repository.users :
          /\ UserRepository_get_by_id(user_repository, u) = user_repository.users[u]
          /\ user_repository.users[u].user_id = u
          /\ LET username == user_repository.users[u].username
                 later == user_repository.users[SavedLast(SavedUnder(username))]
             IN  /\ UserRepository_get_by_username(user_repository, username) = later
                 /\ \A password \in {"testpassword123", "testpassword456", "wrongpassword"} :
                       authenticate_user(username, password, user_repository) =
                          IF later.hashed_password = hashpw(password, later.hashed_password.salt)
                          THEN later ELSE None
    /\ (last # NoRequest /\ last.op = "authenticate_user") =>
          last.result =
             IF SavedUnder(last.username) = {} THEN None
             ELSE LET later == user_repository.users[SavedLast(SavedUnder(last.username))]
                  IN  IF later.hashed_password =
                             hashpw(last.password, later.hashed_password.salt)
                      THEN later ELSE None

C32_Witness ==
    /\ last # NoRequest
    /\ last.op = "authenticate_user"
    /\ last.username = "testuser"
    /\ last.password = "testpassword123"
    /\ last.result = None
    /\ SavedUnder("testuser") = {"u1", "u2"}
    /\ user_repository.users["u1"].hashed_password = hashpw("testpassword123", "salt1")
    /\ user_repository.users["u2"].hashed_password = hashpw("testpassword456", "salt1")
    /\ UserRepository_get_by_id(user_repository, "u1") # None

\* C33: a successful complete_habit or miss_habit on a habit changes only the
\* entries, progress, streak and updated_at of that habit: its habit_id,
\* user_id, title, description and created_at, every other habit, the keys of
\* the store and every user record stay as they were; no step of the service
\* changes the owner of a habit.
C33_CompletionTouchesOneHabit ==
    [][/\ \A h \in DOMAIN heap :
             /\ h \in DOMAIN heap'
             /\ heap'[h].user_id = heap[h].user_id
       /\ (/\ IsRequest(last')
           /\ last'.op \in {"complete_habit", "miss_habit"}
           /\ last'.status = HTTP_200_OK) =>
             LET h == habit_repository[last'.habitId]
             IN  /\ heap'[h].habit_id = heap[h].habit_id
                 /\ heap'[h].user_id = heap[h].user_id
                 /\ heap'[h].title = heap[h].title
                 /\ heap'[h].description = heap[h].description
                 /\ heap'[h].created_at = heap[h].created_at
                 /\ heap'[h].entries # heap[h].entries
                 /\ \A g \in DOMAIN heap : g # h => heap'[g] = heap[g]
                 /\ DOMAIN heap' = DOMAIN heap
                 /\ habit_repository' = habit_repository
                 /\ user_repository' = user_repository]_vars

C33_Witness ==
    /\ IsRequest(last)
    /\ last.op = "complete_habit"
    /\ last.status = HTTP_200_OK
    /\ Cardinality(DOMAIN heap) = 2
    /\ Cardinality(DOMAIN user_repository.users) = 2
    /\ \E g \in DOMAIN heap :
          /\ g # habit_repository[last.habitId]
          /\ heap[g].user_id # heap[habit_repository[last.habitId]].user_id
          /\ heap[g].entries # <<>>

\* The completed entries of a log, and the length of its longest suffix of
\* completed entries.
RECURSIVE CompletedIn(_)
CompletedIn(entries) ==
    IF entries = <<>> THEN 0
    ELSE (IF entries[1].completed THEN 1 ELSE 0) + CompletedIn(Tail(entries))

RECURSIVE CompletedSuffix(_)
CompletedSuffix(entries) ==
    IF entries = <<>> THEN 0
    ELSE IF ~entries[Len(entries)].completed THEN 0
    ELSE 1 + CompletedSuffix(SubSeq(entries, 1, Len(entries) - 1))

\* C34: after any sequence of complete() and miss() calls made one after the
\* other, the entries of the log flagged completed are as many as
\* progress.completed_entries, and streak.count is the length of the longest
\* suffix of the log made of completed entries only.
C34_LogAgreesWithCounters ==
    \A h \in DOMAIN heap :
        /\ CompletedIn(heap[h].entries) = heap[h].progress.completed_entries
        /\ CompletedSuffix(heap[h].entries) = heap[h].streak.count

C34_Witness ==
    \E h \in DOMAIN heap :
        /\ Len(heap[h].entries) = 5
        /\ ~heap[h].entries[3].completed
        /\ CompletedIn(heap[h].entries) = 4
        /\ heap[h].streak.count = 2

\* C35: in every state a Progress reaches by add_completed_entry() and
\* add_missed_entry() calls made one after the other, percentage lies between
\* 0 and 100, and it is 100 exactly when total_entries > 0 and
\* completed_entries = total_entries.
C35_PercentageWithinRange ==
    /\ percentage(progress) >= 0
    /\ percentage(progress) <= 100
    /\ percentage(progress) = 100 <=>
          (progress.total_entries > 0
             /\ progress.completed_entries = progress.total_entries)

C35_Witness ==
    /\ progress.total_entries >= 40
    /\ progress.completed_entries = progress.total_entries - 1
    /\ percentage(progress) < 100
    /\ percentage(progress) >= 97

\* The orders in which the requests of the threads can be put one after the
\* other, and the complete()/miss() calls of the threads in such an order.
ThreadOrders ==
    {f \in [1..NThreads -> ThreadIds] : \A i, j \in 1..NThreads : f[i] = f[j] => i = j}

CallsIn(order) ==
    [i \in 1..NThreads |->
        IF threads[order[i]].op = "complete_habit" THEN "complete" ELSE "miss"]

\* C36: when complete_habit and miss_habit requests of the owner run at once
\* on one habit, the habit, once all of them have returned, is in the state
\* that the same calls made one after the other in some order produce:
\* len(entries) = total_entries, completed_entries is the number of
\* complete_habit requests, and streak.count is the number of completes after
\* the last miss of that order.
C36_ConcurrentEqualsSequential ==
    (/\ threads # <<>>
     /\ AllDone
     /\ \A t \in ThreadIds :
           /\ threads[t].op \in {"complete_habit", "miss_habit"}
           /\ threads[t].status = HTTP_200_OK)
        => \E order \in ThreadOrders :
              LET after == ApplyCalls(HabitCreate("h1", "u1", "Test Habit", "", 0),
                                      CallsIn(order))
              IN  /\ Len(heap["h1"].entries) = heap["h1"].progress.total_entries
                  /\ heap["h1"].progress = after.progress
                  /\ heap["h1"].streak = after.streak
                  /\ Len(heap["h1"].entries) = Len(after.entries)

\* C37: once habit_repository.delete(id) has returned True, no record with
\* that id is in the store again, also when the delete runs between the load
\* and the save of a complete_habit or miss_habit on that id.
C37_DeletedStaysDeleted ==
    (last # NoRequest /\ last.op = "delete" /\ last.result)
        => last.habitId \notin DOMAIN habit_repository

====
